---------------------------- MODULE Spec2Model ----------------------------
(***************************************************************************)
(* Resilient access layer of the accounting MCP server: retry controller   *)
(* (src/utils/retry.js), token bucket rate limiter (src/utils/rateLimit.js)*)
(* token lifecycle manager (src/services/tokenManager.js) over the         *)
(* credential store (src/services/tokenStorage.js) and the freee client    *)
(* operations (src/services/freeeClient.js).                               *)
(*                                                                         *)
(* Asynchronous calls are tasks (Procs).  Every await in the source is a   *)
(* possible suspension point; an action is the code that runs between two  *)
(* suspension points.  Time is in milliseconds (Date.now()); the bucket's  *)
(* token count is kept in units of 1/TokenScale token so that the refill   *)
(* arithmetic is exact.                                                    *)
(***************************************************************************)
EXTENDS Integers, Sequences, FiniteSets, TLC

\* ------------------------------------------------------------------ bounds
NumProcs == 2
MaxRetriesBound == 3
MaxGrants == 6
MaxTime == 24000
ClockStep == 12000

Procs == 1..NumProcs

\* ------------------------------------------------------- program constants
DefaultMaxRetries == 3
DefaultInitialDelay == 1000
DefaultMaxDelay == 30000
DefaultFactor == 2

Min(a, b) == IF a < b THEN a ELSE b
Max(a, b) == IF a > b THEN a ELSE b

RECURSIVE Pow(_, _)
Pow(b, e) == IF e = 0 THEN 1 ELSE b * Pow(b, e - 1)

\* ------------------------------------------------------------------ errors
\* A JavaScript Error as the code builds and probes it: .code, .status
\* (0 = undefined), .message (by its literal prefix) and the invocation of
\* the unit of work that raised it (id).
NoError == [code |-> "", status |-> 0, message |-> "", id |-> 0]

MkError(code, status, message, id) ==
  [code |-> code, status |-> status, message |-> message, id |-> id]

\* Property access on a number primitive: .code, .status and .message are
\* all undefined.
NumberAsError(n) == [code |-> "", status |-> 0, message |-> "", id |-> 0]

NetworkCodes == {"ECONNREFUSED", "ETIMEDOUT", "ECONNRESET", "EPIPE"}
RetryableStatuses == {408, 429, 500, 502, 503, 504}
\* Messages of the model that contain 'fetch failed', 'network' or 'timeout'.
NetworkMessages == {"fetch failed"}

IsRetryableError(error) ==
  IF error.code \in NetworkCodes THEN TRUE
  ELSE IF error.status # 0 THEN error.status \in RetryableStatuses
  ELSE error.message \in NetworkMessages

\* ------------------------------------------------------- retry controller
\* options.shouldRetry as passed by the callers:
\*   "default"      () => true                                   (retry.js:31)
\*   "statusNumber" (error) => error.status && isRetryableError(error.status)
\*   "isRetryable"  (error) => isRetryableError(error)
\*   "refuse"       a caller-supplied predicate that is false for one
\*                  (status, attempt) pair
ShouldRetry(a, error, att) ==
  CASE a.policy = "default" -> TRUE
    [] a.policy = "statusNumber" ->
         error.status # 0 /\ IsRetryableError(NumberAsError(error.status))
    [] a.policy = "isRetryable" -> IsRetryableError(error)
    [] a.policy = "refuse" -> ~(error.status = a.refuseStatus /\ att = a.refuseAt)

NominalDelay(a, att) == Min(a.initialDelay * Pow(a.factor, att), a.maxDelay)

\* delay * (0.5 + Math.random() * 0.5), Math.random() in [0, 1)
JitterPcts == {50, 99}
JitterChoices(a) == IF a.jitter THEN JitterPcts ELSE {100}
Jittered(delay, pct) == (delay * pct) \div 100

\* ------------------------------------------------------------ rate limiter
TokenScale == 12000          \* bucket units per token
FreeeMaxTokens == 5
FreeeRefillRate == 1         \* 5 / 60 token per second = 1 unit per ms

\* setTimeout truncates a fractional delay and clamps it to at least 1 ms
TimerMs(num, den) == Max(1, num \div den)

\* ----------------------------------------------------------- token manager
Providers == {"freee", "quickbooks"}
REFRESH_BUFFER_SECONDS == 300
DefaultExpiresIn == 3600
NoToken == 0                 \* undefined
EnvToken == 1                \* process.env.<P>_ACCESS_TOKEN
OldToken == 2                \* access token from the last authorization
OldRefresh == 3              \* its refresh token
FirstIssued == 10            \* tokens handed out by the token endpoint
StartTime == 1000000         \* Date.now() when the model starts

NoCredential == [present |-> FALSE, access_token |-> 0, refresh_token |-> 0,
                 expires_at |-> 0]

\* {}: a map of the credential store that holds no provider
EmptyMap == [q \in Providers |-> NoCredential]

\* ------------------------------------------------------------------- state
VARIABLES
  now,            \* Date.now()
  env,            \* process.env
  maxTokens, refillRate, tokens, lastRefill,     \* RateLimiter fields
  cachedTokens, tokenExpiresAt,                  \* tokenManager.js:10-11
  store,          \* decrypted contents of .tokens.enc
  issued,         \* access tokens issued so far by the token endpoint
  op, arg, pc,    \* per task: operation, its arguments, position
  attempt, lastError, wakeAt, result,            \* retryWithBackoff locals
  loc,            \* per task: locals of the client / token manager code
  hist,           \* per task: observations (history, not program state)
  grants,         \* times at which the bucket granted a token (history)
  cache,          \* table cache of cache.db, by cache_key
  cacheStats,     \* table cache_stats of cache.db, by endpoint
  lastSet,        \* per cache_key: the last write or removal (history)
  auditLog,       \* table audit_log of audit.db, in id order
  auditSummary,   \* table audit_summary of audit.db, by date
  call,           \* per task: arguments and locals of the cache, audit
                  \* and middleware code
  served,         \* calls and requests started so far (sequence number)
  vault           \* .key, .tokens.enc and encryptionKey of tokenStorage.js

clockVars == <<now>>
limVars == <<maxTokens, refillRate, tokens, lastRefill>>
tokVars == <<cachedTokens, tokenExpiresAt, store, issued>>
retryVars == <<attempt, lastError, wakeAt, result>>
envVars == <<env, op, arg>>
svcVars == <<cache, cacheStats, lastSet, auditLog, auditSummary, call,
             served, vault>>
\* what the cache, audit and middleware code never touches
accessVars == <<env, maxTokens, refillRate, tokens, lastRefill, cachedTokens,
                tokenExpiresAt, store, issued, arg, attempt, lastError,
                wakeAt, result, loc, hist, grants, vault>>
vars == <<now, env, maxTokens, refillRate, tokens, lastRefill, cachedTokens,
          tokenExpiresAt, store, issued, op, arg, pc, attempt, lastError,
          wakeAt, result, loc, hist, grants, cache, cacheStats, lastSet,
          auditLog, auditSummary, call, served, vault>>

NoResult == [type |-> "none", value |-> 0, error |-> NoError, attempts |-> -1,
             cause |-> NoError]
Returned(v) == [type |-> "value", value |-> v, error |-> NoError,
                attempts |-> -1, cause |-> NoError]
Thrown(e) == [type |-> "thrown", value |-> 0, error |-> e, attempts |-> -1,
              cause |-> NoError]
\* retry.js:66-69
RetryError(att, last) ==
  [type |-> "thrown", value |-> 0,
   error |-> MkError("", 0, "Failed after retries", 0),
   attempts |-> att, cause |-> last]

NoArg == [provider |-> "freee", hasCompany |-> FALSE, maxRetries |-> 0,
          initialDelay |-> 0, maxDelay |-> 0, factor |-> 0, jitter |-> FALSE,
          policy |-> "default", refuseStatus |-> 0, refuseAt |-> 0,
          script |-> <<>>, header |-> "none"]

NoLoc == [gatNow |-> 0, token |-> 0, stored |-> NoCredential,
          tokensMap |-> [q \in Providers |-> NoCredential],
          tokenData |-> 0, saved |-> NoCredential, status |-> 0, i |-> 0]

NoHist == [calls |-> 0, http |-> 0, refreshes |-> 0,
           seenCached |-> 0, seenExpiry |-> 0, seenNow |-> 0,
           rlWait |-> 0, backoffWait |-> 0, limWait |-> 0, explicit |-> 0,
           gap |-> [after |-> 0, rateLimit |-> 0, backoff |-> 0, limiter |-> 0],
           got |-> <<>>, checks |-> 0, errorAt |-> 0]

\* ------------------------------------------------------------------ clock
Sleeping == {"backoff", "limiterSleep", "rateLimitSleep", "pollSleep"}

\* Time passes with no timer pending.
Tick ==
  /\ \A p \in Procs : pc[p] \notin Sleeping
  /\ now + ClockStep <= StartTime + MaxTime
  /\ now' = now + ClockStep
  /\ UNCHANGED <<env, limVars, tokVars, op, arg, pc, retryVars, loc, hist,
                 grants>>

\* Time passes until a pending timer of sleep(ms) is due.
TimerDue ==
  /\ \E p \in Procs :
       /\ pc[p] \in Sleeping
       /\ wakeAt[p] > now
       /\ now' = wakeAt[p]
  /\ UNCHANGED <<env, limVars, tokVars, op, arg, pc, retryVars, loc, hist,
                 grants>>

\* ------------------------------------------- retryWithBackoff (retry.js)
RetryOps == {"work", "getJournals", "getItems", "getSections", "getTaxes",
             "getTags", "getPartners", "getAccountItems", "callFreeeEndpoint"}
ClientOps == RetryOps \ {"work", "callFreeeEndpoint"}

Bump(h, f, d) == [h EXCEPT ![f] = @ + d]

\* while (attempt <= maxRetries)  (retry.js:37)
LoopTest(att, a) == att <= a.maxRetries

\* if (attempt >= maxRetries) break  (retry.js:43)
ExhaustedOffByOne(att, a) == att > a.maxRetries
Exhausted(att, a) == att >= a.maxRetries

\* catch block of the loop, retry.js:40-63, and the exit at 66-69; the task
\* is the one whose unit of work threw error.  h is the task's history
\* after the step that threw.
Caught(p, error, h) ==
  /\ lastError' = [lastError EXCEPT ![p] = error]
  /\ UNCHANGED attempt
  /\ IF Exhausted(attempt[p], arg[p])
     THEN /\ result' = [result EXCEPT ![p] = RetryError(attempt[p], error)]
          /\ pc' = [pc EXCEPT ![p] = "done"]
          /\ hist' = [hist EXCEPT ![p] = h]
          /\ UNCHANGED wakeAt
     ELSE IF ~ShouldRetry(arg[p], error, attempt[p])
     THEN /\ result' = [result EXCEPT ![p] = Thrown(error)]
          /\ pc' = [pc EXCEPT ![p] = "done"]
          /\ hist' = [hist EXCEPT ![p] = h]
          /\ UNCHANGED wakeAt
     ELSE \E pct \in JitterChoices(arg[p]) :
            LET delay == Jittered(NominalDelay(arg[p], attempt[p]), pct) IN
            /\ wakeAt' = [wakeAt EXCEPT ![p] = now + delay]
            /\ pc' = [pc EXCEPT ![p] = "backoff"]
            /\ hist' = [hist EXCEPT ![p] = Bump(h, "backoffWait", delay)]
            /\ UNCHANGED result

\* An error leaves the code of task p: into the catch block of the retry
\* loop when the operation runs under retryWithBackoff, to the caller
\* otherwise.
Raise(p, error, h) ==
  IF op[p] \in RetryOps
  THEN Caught(p, error, h)
  ELSE /\ result' = [result EXCEPT ![p] = Thrown(error)]
       /\ pc' = [pc EXCEPT ![p] = "done"]
       /\ hist' = [hist EXCEPT ![p] = h]
       /\ UNCHANGED <<attempt, lastError, wakeAt>>

\* await sleep(delay); attempt++  (retry.js:61-62), then the loop test
BackoffWake(p) ==
  /\ pc[p] = "backoff"
  /\ now >= wakeAt[p]
  /\ attempt' = [attempt EXCEPT ![p] = @ + 1]
  /\ IF LoopTest(attempt[p] + 1, arg[p])
     THEN /\ pc' = [pc EXCEPT ![p] = "invoke"]
          /\ UNCHANGED result
     ELSE /\ pc' = [pc EXCEPT ![p] = "done"]
          /\ result' = [result EXCEPT
                          ![p] = RetryError(attempt[p] + 1, lastError[p])]
  /\ UNCHANGED <<now, env, limVars, tokVars, op, arg, lastError, wakeAt,
                 loc, hist, grants>>

\* A unit of work with no state of its own: each invocation either returns
\* or throws one of WorkErrors.
WorkErrors == {MkError("", 503, "", 0), MkError("", 401, "", 0),
               MkError("ECONNRESET", 0, "", 0)}

WorkArgs ==
  {[NoArg EXCEPT !.maxRetries = n, !.initialDelay = DefaultInitialDelay,
                 !.maxDelay = DefaultMaxDelay, !.factor = DefaultFactor,
                 !.jitter = j, !.policy = pol[1], !.refuseStatus = pol[2],
                 !.refuseAt = pol[3]] :
     n \in 0..MaxRetriesBound, j \in BOOLEAN,
     pol \in {<<"default", 0, 0>>, <<"isRetryable", 0, 0>>}
             \cup {<<"refuse", st, k>> : st \in {401},
                                         k \in 0..MaxRetriesBound}}

\* retryWithBackoff(fn, options) is called: retry.js:24-35
StartWork(p) ==
  /\ pc[p] = "idle"
  /\ \E a \in WorkArgs : arg' = [arg EXCEPT ![p] = a]
  /\ op' = [op EXCEPT ![p] = "work"]
  /\ attempt' = [attempt EXCEPT ![p] = 0]
  /\ pc' = [pc EXCEPT ![p] = "invoke"]
  /\ UNCHANGED <<now, env, limVars, tokVars, lastError, wakeAt, result, loc,
                 hist, grants>>

\* return await fn(attempt)  (retry.js:39) for the stateless unit of work
InvokeWork(p) ==
  /\ pc[p] = "invoke"
  /\ op[p] = "work"
  /\ LET h == Bump(hist[p], "calls", 1) IN
     \/ /\ result' = [result EXCEPT ![p] = Returned(h.calls)]
        /\ pc' = [pc EXCEPT ![p] = "done"]
        /\ hist' = [hist EXCEPT ![p] = h]
        /\ UNCHANGED <<attempt, lastError, wakeAt>>
     \/ \E e \in WorkErrors : Caught(p, [e EXCEPT !.id = h.calls], h)
  /\ UNCHANGED <<now, env, limVars, tokVars, op, arg, loc, grants>>

\* --------------------------------------- RateLimiter (utils/rateLimit.js)
\* constructor: options.maxTokens || 10, options.refillRate || 1 (per second)
DefaultMaxTokens == 10
DefaultRefillRate == 12
NewMaxTokens(o) == IF o.maxTokens = 0 THEN DefaultMaxTokens ELSE o.maxTokens
NewRefillRate(o) == IF o.refillRate = 0 THEN DefaultRefillRate ELSE o.refillRate

Capacity == maxTokens * TokenScale

\* refill(): tokens = Math.min(maxTokens, tokens + elapsed * refillRate)
RefilledUncapped == tokens + (now - lastRefill) * refillRate
Refilled == Min(Capacity, tokens + (now - lastRefill) * refillRate)

\* waitTime = ((1 - tokens) / refillRate) * 1000, after refill()
\* (rateLimit.js:37-39)
WaitTimeInSeconds == TimerMs(TokenScale - Refilled, refillRate * 1000)
WaitTime == TimerMs(TokenScale - Refilled, refillRate)

\* The value handed to the code that follows `await rateLimiter.acquire()`
\* or `await getAccessToken()`: the caller of a direct call gets it as its
\* result, a client operation goes on with its next statement.
AcquireDone(p) ==
  IF op[p] = "acquire"
  THEN /\ pc' = [pc EXCEPT ![p] = "done"]
       /\ result' = [result EXCEPT ![p] = Returned(1)]
  ELSE /\ pc' = [pc EXCEPT ![p] = "token"]
       /\ UNCHANGED result

\* acquire(): rateLimit.js:29-43.  refill, the test and the decrement run
\* without a suspension point; the recursive call after the sleep is the
\* same code again.
Acquire(p) ==
  /\ pc[p] = "acquire"
  /\ lastRefill' = now
  /\ IF Refilled >= TokenScale
     THEN /\ tokens' = Refilled - TokenScale
          /\ grants' = Append(grants, now)
          /\ AcquireDone(p)
          /\ UNCHANGED <<wakeAt, hist>>
     ELSE LET waitTime == WaitTime IN
          /\ tokens' = Refilled
          /\ wakeAt' = [wakeAt EXCEPT ![p] = now + waitTime]
          /\ pc' = [pc EXCEPT ![p] = "limiterSleep"]
          /\ hist' = [hist EXCEPT ![p] = Bump(@, "limWait", waitTime)]
          /\ UNCHANGED <<grants, result>>
  /\ UNCHANGED <<now, env, maxTokens, refillRate, tokVars, op, arg, attempt,
                 lastError, loc>>

\* await sleep(waitTime); return this.acquire()  (rateLimit.js:41-42)
LimiterWakeReturns(p) ==
  /\ pc[p] = "limiterSleep"
  /\ now >= wakeAt[p]
  /\ pc' = [pc EXCEPT ![p] = "done"]
  /\ result' = [result EXCEPT ![p] = Returned(0)]
  /\ UNCHANGED <<now, env, limVars, tokVars, op, arg, attempt, lastError,
                 wakeAt, loc, hist, grants>>
LimiterWake(p) ==
  /\ pc[p] = "limiterSleep"
  /\ now >= wakeAt[p]
  /\ pc' = [pc EXCEPT ![p] = "acquire"]
  /\ UNCHANGED <<now, env, limVars, tokVars, op, arg, retryVars, loc, hist,
                 grants>>

\* a direct call of limiter.acquire()
StartAcquire(p) ==
  /\ pc[p] = "idle"
  /\ op' = [op EXCEPT ![p] = "acquire"]
  /\ pc' = [pc EXCEPT ![p] = "acquire"]
  /\ UNCHANGED <<now, env, limVars, tokVars, arg, retryVars, loc, hist,
                 grants>>

\* tryAcquire(): rateLimit.js:48-57
TryAcquire(p) ==
  /\ pc[p] = "idle"
  /\ op' = [op EXCEPT ![p] = "tryAcquire"]
  /\ pc' = [pc EXCEPT ![p] = "done"]
  /\ lastRefill' = now
  /\ IF Refilled >= TokenScale
     THEN /\ tokens' = Refilled - TokenScale
          /\ grants' = Append(grants, now)
          /\ result' = [result EXCEPT ![p] = Returned(1)]
     ELSE /\ tokens' = Refilled
          /\ result' = [result EXCEPT ![p] = Returned(0)]
          /\ UNCHANGED grants
  /\ UNCHANGED <<now, env, maxTokens, refillRate, tokVars, arg, attempt,
                 lastError, wakeAt, loc, hist>>

\* a direct call of refill(): rateLimit.js:17-24
RefillCall(p) ==
  /\ pc[p] = "idle"
  /\ op' = [op EXCEPT ![p] = "refill"]
  /\ pc' = [pc EXCEPT ![p] = "done"]
  /\ tokens' = Refilled
  /\ lastRefill' = now
  /\ UNCHANGED <<now, env, maxTokens, refillRate, tokVars, arg, retryVars,
                 loc, hist, grants>>

\* ------------------------------ token manager (services/tokenManager.js)
EnvTokenSet(q) ==
  IF q = "freee" THEN env.FREEE_ACCESS_TOKEN ELSE env.QB_ACCESS_TOKEN

\* if (cachedTokens[provider] && tokenExpiresAt[provider]) and
\* tokenExpiresAt[provider] - bufferTime > now  (tokenManager.js:123-127)
CacheFreshAtOrAfterExpiry(q) ==
  /\ cachedTokens[q] # NoToken
  /\ tokenExpiresAt[q] # 0
  /\ tokenExpiresAt[q] > now
CacheFresh(q) ==
  /\ cachedTokens[q] # NoToken
  /\ tokenExpiresAt[q] # 0
  /\ tokenExpiresAt[q] - REFRESH_BUFFER_SECONDS * 1000 > now

Goto(p, to, l, h) ==
  /\ pc' = [pc EXCEPT ![p] = to]
  /\ loc' = [loc EXCEPT ![p] = l]
  /\ hist' = [hist EXCEPT ![p] = h]
  /\ UNCHANGED retryVars

\* getAccessToken returns tok: to its caller (a direct call) or into
\* `const token = await getAccessToken('freee')` of a client operation.
TokenDone(p, tok, l, h) ==
  /\ loc' = [loc EXCEPT ![p] = [l EXCEPT !.token = tok]]
  /\ hist' = [hist EXCEPT ![p] = h]
  /\ UNCHANGED <<attempt, lastError, wakeAt>>
  /\ IF op[p] = "getAccessToken"
     THEN /\ pc' = [pc EXCEPT ![p] = "done"]
          /\ result' = [result EXCEPT ![p] = Returned(tok)]
     ELSE /\ pc' = [pc EXCEPT ![p] = "check"]
          /\ UNCHANGED result

TokenError(p, message) == MkError("", 0, message, hist[p].calls)

\* a direct call of getAccessToken(provider)
StartGetAccessToken(p) ==
  /\ pc[p] = "idle"
  /\ \A q \in Procs : q < p => pc[q] # "idle"
  /\ op' = [op EXCEPT ![p] = "getAccessToken"]
  /\ \E q \in Providers : arg' = [arg EXCEPT ![p] = [NoArg EXCEPT !.provider = q]]
  /\ pc' = [pc EXCEPT ![p] = "token"]
  /\ UNCHANGED <<now, env, limVars, tokVars, retryVars, loc, hist, grants>>

\* getAccessToken up to its first await (tokenManager.js:104-130), with
\* requestToken (70-102) and refresh<Provider>Token up to
\* `await getStoredToken(provider)` (16-21, 57-62).
GetAccessToken(p) ==
  /\ pc[p] = "token"
  /\ LET q == arg[p].provider
         l == [loc[p] EXCEPT !.gatNow = now]
         h == [hist[p] EXCEPT !.seenCached = cachedTokens[q],
                              !.seenExpiry = tokenExpiresAt[q],
                              !.seenNow = now]
     IN
     IF env.development /\ cachedTokens[q] = NoToken /\ EnvTokenSet(q)
     THEN /\ cachedTokens' = [cachedTokens EXCEPT ![q] = EnvToken]
          /\ tokenExpiresAt' = [tokenExpiresAt EXCEPT
                                  ![q] = now + DefaultExpiresIn * 1000]
          /\ TokenDone(p, EnvToken, l, h)
     ELSE IF CacheFresh(q)
     THEN /\ TokenDone(p, cachedTokens[q], l, h)
          /\ UNCHANGED <<cachedTokens, tokenExpiresAt>>
     ELSE IF EnvTokenSet(q)
     THEN /\ Goto(p, "gatAssign", [l EXCEPT !.token = EnvToken], h)
          /\ UNCHANGED <<cachedTokens, tokenExpiresAt>>
     ELSE IF ~env.credentials
     THEN /\ Raise(p, TokenError(p, "CLIENT_ID and CLIENT_SECRET must be set"), h)
          /\ loc' = [loc EXCEPT ![p] = l]
          /\ UNCHANGED <<cachedTokens, tokenExpiresAt>>
     ELSE /\ Goto(p, "refreshLoad", l, h)
          /\ UNCHANGED <<cachedTokens, tokenExpiresAt>>
  /\ UNCHANGED <<now, env, limVars, store, issued, op, arg, grants>>

\* storedToken?.refresh_token  (tokenManager.js:22, 63): getStoredToken gives
\* null for a provider the map does not hold
HasRefreshTokenIfStored(storedToken) == storedToken.present
HasRefreshToken(storedToken) ==
  storedToken.present /\ storedToken.refresh_token # NoToken

\* getStoredToken resolves (tokenStorage.js:118-121); refresh<Provider>Token
\* goes on to the request to the token endpoint (tokenManager.js:22-40,
\* 63-67).
RefreshLoad(p) ==
  /\ pc[p] = "refreshLoad"
  /\ LET q == arg[p].provider
         storedToken == store[q]
     IN
     IF ~HasRefreshToken(storedToken)
     THEN /\ Raise(p, TokenError(p, "No refresh token available"), hist[p])
          /\ UNCHANGED loc
     ELSE IF q = "quickbooks"
     THEN /\ Raise(p, TokenError(p, "QuickBooks token refresh not yet implemented"),
                   hist[p])
          /\ UNCHANGED loc
     ELSE Goto(p, "refreshing", [loc[p] EXCEPT !.stored = storedToken],
               Bump(hist[p], "refreshes", 1))
  /\ UNCHANGED <<now, env, limVars, tokVars, op, arg, grants>>

\* the token endpoint answers (tokenManager.js:42-49), up to
\* `await loadSecureTokens()` in storeTokenSecurely (tokenStorage.js:97)
TokenEndpointStatuses == {200, 401}

RefreshResponse(p) ==
  /\ pc[p] = "refreshing"
  /\ \E st \in TokenEndpointStatuses :
       IF st # 200
       THEN /\ Raise(p, TokenError(p, "Failed to refresh freee token"), hist[p])
            /\ loc' = [loc EXCEPT ![p].status = st]
            /\ UNCHANGED issued
       ELSE /\ issued' = issued + 1
            /\ Goto(p, "storeLoad",
                    [loc[p] EXCEPT !.status = st,
                                   !.tokenData = FirstIssued + issued],
                    hist[p])
  /\ UNCHANGED <<now, env, limVars, cachedTokens, tokenExpiresAt, store, op,
                 arg, grants>>

\* storeTokenSecurely after the load: tokenStorage.js:97-112
StoreLoad(p) ==
  /\ pc[p] = "storeLoad"
  /\ LET q == arg[p].provider
         cred == [present |-> TRUE, access_token |-> loc[p].tokenData,
                  refresh_token |-> loc[p].tokenData,
                  expires_at |-> now + DefaultExpiresIn * 1000]
     IN Goto(p, "storeSave",
             [loc[p] EXCEPT !.tokensMap = [store EXCEPT ![q] = cred],
                            !.saved = cred],
             hist[p])
  /\ UNCHANGED <<now, env, limVars, tokVars, op, arg, grants>>

\* saveSecureTokens writes the file: tokenStorage.js:83-89
StoreSave(p) ==
  /\ pc[p] = "storeSave"
  /\ store' = loc[p].tokensMap
  /\ Goto(p, "refreshDone", loc[p], hist[p])
  /\ UNCHANGED <<now, env, limVars, cachedTokens, tokenExpiresAt, issued, op,
                 arg, grants>>

\* refreshFreeeToken after storeTokenSecurely: tokenManager.js:51-54
RefreshDone(p) ==
  /\ pc[p] = "refreshDone"
  /\ cachedTokens' = [cachedTokens EXCEPT ![arg[p].provider] =
                                             loc[p].saved.access_token]
  /\ tokenExpiresAt' = [tokenExpiresAt EXCEPT ![arg[p].provider] =
                                                 loc[p].saved.expires_at]
  /\ Goto(p, "gatAssign", [loc[p] EXCEPT !.token = loc[p].saved.access_token],
          hist[p])
  /\ UNCHANGED <<now, env, limVars, store, issued, op, arg, grants>>

\* getAccessToken after `await requestToken(provider)`:
\* tokenManager.js:130-133
GatAssign(p) ==
  /\ pc[p] = "gatAssign"
  /\ cachedTokens' = [cachedTokens EXCEPT ![arg[p].provider] = loc[p].token]
  /\ tokenExpiresAt' = [tokenExpiresAt EXCEPT ![arg[p].provider] =
                           loc[p].gatNow + DefaultExpiresIn * 1000]
  /\ TokenDone(p, loc[p].token, loc[p], hist[p])
  /\ UNCHANGED <<now, env, limVars, store, issued, op, arg, grants>>

\* ----------------------------- client operations (services/freeeClient.js)
\* The seven operations come in three shapes:
\*   getJournals                       shouldRetry: error.status &&
\*                                       isRetryableError(error.status)
\*   getItems, getSections, getTaxes,  no options: the defaults of
\*   getTags                             retryWithBackoff
\*   getPartners, getAccountItems      shouldRetry: isRetryableError(error);
\*                                       a 429 is thrown as 'Rate limited'
PartnerOps == {"getPartners", "getAccountItems"}

PolicyOf(o) ==
  CASE o = "getJournals" -> "statusNumber"
    [] o \in PartnerOps -> "isRetryable"
    [] OTHER -> "default"

ClientArg(o, company) ==
  [NoArg EXCEPT !.provider = "freee", !.hasCompany = company,
                !.maxRetries = DefaultMaxRetries,
                !.initialDelay = DefaultInitialDelay,
                !.maxDelay = DefaultMaxDelay, !.factor = DefaultFactor,
                !.jitter = TRUE, !.policy = PolicyOf(o)]

\* a client operation is called: it enters retryWithBackoff
StartClient(p) ==
  /\ pc[p] = "idle"
  /\ \E o \in ClientOps, company \in BOOLEAN :
       /\ op' = [op EXCEPT ![p] = o]
       /\ arg' = [arg EXCEPT ![p] = ClientArg(o, company)]
  /\ attempt' = [attempt EXCEPT ![p] = 0]
  /\ pc' = [pc EXCEPT ![p] = "invoke"]
  /\ UNCHANGED <<now, env, limVars, tokVars, lastError, wakeAt, result, loc,
                 hist, grants>>

\* return await fn(attempt)  (retry.js:39): the unit of work starts with
\* `await rateLimiter.acquire()`
InvokeClient(p) ==
  /\ pc[p] = "invoke"
  /\ op[p] \in ClientOps
  /\ pc' = [pc EXCEPT ![p] = "acquire"]
  /\ hist' = [hist EXCEPT ![p] = Bump(@, "calls", 1)]
  /\ UNCHANGED <<now, env, limVars, tokVars, op, arg, retryVars, loc, grants>>

\* The sleeps of the call since the response before this request
Gap(h) == [after |-> h.got[Len(h.got)], rateLimit |-> h.rlWait,
           backoff |-> h.backoffWait, limiter |-> h.limWait]

Sent(h) ==
  [h EXCEPT !.http = @ + 1,
            !.gap = IF h.got = <<>> THEN @ ELSE Gap(h),
            !.rlWait = 0, !.backoffWait = 0, !.limWait = 0]

\* from the company id test to the request: freeeClient.js:15-36
CheckAndFetch(p) ==
  /\ pc[p] = "check"
  /\ op[p] \in ClientOps
  /\ IF ~(arg[p].hasCompany \/ env.FREEE_COMPANY_ID)
     THEN /\ Raise(p, MkError("", 0, "company_id is required", hist[p].calls),
                   hist[p])
          /\ UNCHANGED loc
     ELSE Goto(p, "http", loc[p], Sent(hist[p]))
  /\ UNCHANGED <<now, env, limVars, tokVars, op, arg, grants>>

\* handleRateLimit (rateLimit.js:65-102): the wait it sleeps for a 429
\* response with the given rate limit headers
RateLimitHeaders ==
  {[retryAfter |-> "", value |-> 0, reset |-> 0],
   [retryAfter |-> "seconds", value |-> 2, reset |-> 0],
   [retryAfter |-> "", value |-> 0, reset |-> (StartTime \div 1000) + 4]}

RateLimitBuffer == 1000
DefaultRateLimitWait == 60000

ExplicitWait(hd) ==
  IF hd.retryAfter = "seconds" THEN hd.value * 1000
  ELSE IF hd.retryAfter = "date" THEN Max(0, hd.value - now)
  ELSE IF hd.reset # 0 THEN Max(0, hd.reset * 1000 - now)
  ELSE DefaultRateLimitWait

HandleRateLimitWait(hd) == ExplicitWait(hd) + RateLimitBuffer

\* Statuses the upstream API answers with
ApiStatuses == {200, 401, 429, 503}

\* The error a failed response is turned into: freeeClient.js:42-59 and
\* 283-294
ResponseError(o, st, id) ==
  IF o \in PartnerOps /\ st = 429
  THEN MkError("", 0, "Rate limited", id)
  ELSE MkError("", st, "freee API error", id)

\* the response arrives: freeeClient.js:38-61 (283-296 for the partner
\* shaped operations)
HttpResponse(p) ==
  /\ pc[p] = "http"
  /\ op[p] \in ClientOps
  /\ \E st \in ApiStatuses :
       LET h == [hist[p] EXCEPT !.got = Append(@, st)] IN
       IF st = 200
       THEN /\ pc' = [pc EXCEPT ![p] = "done"]
            /\ result' = [result EXCEPT ![p] = Returned(h.http)]
            /\ hist' = [hist EXCEPT ![p] = h]
            /\ loc' = [loc EXCEPT ![p].status = st]
            /\ UNCHANGED <<attempt, lastError, wakeAt>>
       ELSE IF st = 429
       THEN \E hd \in RateLimitHeaders :
              /\ wakeAt' = [wakeAt EXCEPT ![p] = now + HandleRateLimitWait(hd)]
              /\ pc' = [pc EXCEPT ![p] = "rateLimitSleep"]
              /\ hist' = [hist EXCEPT ![p] =
                            [h EXCEPT !.rlWait = @ + HandleRateLimitWait(hd),
                                      !.explicit = ExplicitWait(hd)]]
              /\ loc' = [loc EXCEPT ![p].status = st]
              /\ UNCHANGED <<attempt, lastError, result>>
       ELSE /\ Raise(p, ResponseError(op[p], st, h.calls), h)
            /\ loc' = [loc EXCEPT ![p].status = st]
  /\ UNCHANGED <<now, env, limVars, tokVars, op, arg, grants>>

\* handleRateLimit returns after its sleep; the unit of work throws
RateLimitWake(p) ==
  /\ pc[p] = "rateLimitSleep"
  /\ now >= wakeAt[p]
  /\ Raise(p, ResponseError(op[p], loc[p].status, hist[p].calls), hist[p])
  /\ UNCHANGED <<now, env, limVars, tokVars, op, arg, loc, grants>>

\* ------------------- journal job (services/freeeClient.js:428-435, 446-521)
PollMaxRetries == 60
PollInterval == 10000

\* getJournals is called with a company id: it enters retryWithBackoff
\* (freeeClient.js:361-443)
StartGetJournals(p) ==
  /\ pc[p] = "idle"
  /\ op' = [op EXCEPT ![p] = "getJournals"]
  /\ arg' = [arg EXCEPT ![p] = ClientArg("getJournals", TRUE)]
  /\ attempt' = [attempt EXCEPT ![p] = 0]
  /\ pc' = [pc EXCEPT ![p] = "invoke"]
  /\ UNCHANGED <<now, env, limVars, tokVars, lastError, wakeAt, result, loc,
                 hist, grants>>

\* the response is a 200 whose body names a job (freeeClient.js:429-435):
\* pollJournalJob starts, and its first iteration (i = 0) does not sleep and
\* requests the status url (freeeClient.js:450-473)
JobResponse(p) ==
  /\ pc[p] = "http"
  /\ op[p] = "getJournals"
  /\ Goto(p, "pollStatus", [loc[p] EXCEPT !.status = 200, !.i = 0],
          Bump(Sent([hist[p] EXCEPT !.got = Append(@, 200)]), "checks", 1))
  /\ UNCHANGED <<now, env, limVars, tokVars, op, arg, grants>>

\* The end of one iteration of the polling loop for task p, with history h.
\* thrown = TRUE: the try block threw error, and the catch block rethrows it
\* on the last iteration only (freeeClient.js:512-517); otherwise, and when
\* the try block completes, the loop goes on: i++ and, while i < maxRetries,
\* the sleep that opens the next iteration (freeeClient.js:450-453); after
\* the loop the timeout error is thrown (freeeClient.js:520)
PollNext(p, thrown, error, h) ==
  IF thrown /\ loc[p].i = PollMaxRetries - 1
  THEN /\ Raise(p, error, h)
       /\ UNCHANGED loc
  ELSE IF loc[p].i + 1 < PollMaxRetries
  THEN /\ loc' = [loc EXCEPT ![p].i = @ + 1]
       /\ wakeAt' = [wakeAt EXCEPT ![p] = now + PollInterval]
       /\ pc' = [pc EXCEPT ![p] = "pollSleep"]
       /\ hist' = [hist EXCEPT ![p] = h]
       /\ UNCHANGED <<attempt, lastError, result>>
  ELSE /\ Raise(p, MkError("", 0, "Timeout waiting for journal data",
                           h.calls), h)
       /\ UNCHANGED loc

\* What a status check is answered with: a failed response, a job still
\* running, a job that failed, a job whose download is ready
StatusAnswers == {"notOk", "pending", "error", "download_url"}

\* the answer to a status check arrives: freeeClient.js:475-517
PollStatus(p) ==
  /\ pc[p] = "pollStatus"
  /\ \E a \in StatusAnswers :
       CASE a = "notOk" ->
              PollNext(p, TRUE, MkError("", 0, "Status check failed",
                                        hist[p].calls), hist[p])
         [] a = "download_url" ->
              Goto(p, "pollDownload", loc[p], Sent(hist[p]))
         [] a = "error" ->
              PollNext(p, TRUE, MkError("", 0, "Job failed", hist[p].calls),
                       [hist[p] EXCEPT
                          !.errorAt = IF @ = 0 THEN hist[p].checks ELSE @])
         [] a = "pending" ->
              PollNext(p, FALSE, NoError, hist[p])
  /\ UNCHANGED <<now, env, limVars, tokVars, op, arg, grants>>

\* the sleep between two status checks ends and the next check is requested
\* (freeeClient.js:451-473)
PollWake(p) ==
  /\ pc[p] = "pollSleep"
  /\ now >= wakeAt[p]
  /\ Goto(p, "pollStatus", loc[p], Bump(Sent(hist[p]), "checks", 1))
  /\ UNCHANGED <<now, env, limVars, tokVars, op, arg, grants>>

\* the answer to the download request arrives: freeeClient.js:499-517
PollDownload(p) ==
  /\ pc[p] = "pollDownload"
  /\ \E ok \in BOOLEAN :
       IF ok
       THEN /\ pc' = [pc EXCEPT ![p] = "done"]
            /\ result' = [result EXCEPT ![p] = Returned(hist[p].http)]
            /\ UNCHANGED <<attempt, lastError, wakeAt, loc, hist>>
       ELSE PollNext(p, TRUE, MkError("", 0, "Download failed",
                                      hist[p].calls), hist[p])
  /\ UNCHANGED <<now, env, limVars, tokVars, op, arg, grants>>

\* ------------------------------ report endpoints (part_010, lines 7-52)
\* callFreeeEndpoint: `await getAccessToken('freee')`, then retryWithBackoff
\* with its default options
StartCallFreeeEndpoint(p) ==
  /\ pc[p] = "idle"
  /\ op' = [op EXCEPT ![p] = "callFreeeEndpoint"]
  /\ arg' = [arg EXCEPT ![p] = ClientArg("callFreeeEndpoint", TRUE)]
  /\ attempt' = [attempt EXCEPT ![p] = 0]
  /\ pc' = [pc EXCEPT ![p] = "token"]
  /\ UNCHANGED <<now, env, limVars, tokVars, lastError, wakeAt, result, loc,
                 hist, grants>>

\* the unit of work of callFreeeEndpoint is invoked, for the first time with
\* the token in hand and again after each backoff: it issues the request
\* (part_010, lines 18-28)
EndpointFetch(p) ==
  /\ pc[p] \in {"check", "invoke"}
  /\ op[p] = "callFreeeEndpoint"
  /\ Goto(p, "http", loc[p], Sent(Bump(hist[p], "calls", 1)))
  /\ UNCHANGED <<now, env, limVars, tokVars, op, arg, grants>>

\* the response arrives: part_010, lines 30-44
EndpointResponse(p) ==
  /\ pc[p] = "http"
  /\ op[p] = "callFreeeEndpoint"
  /\ \E st \in ApiStatuses :
       LET h == [hist[p] EXCEPT !.got = Append(@, st)] IN
       /\ IF st = 200
          THEN /\ pc' = [pc EXCEPT ![p] = "done"]
               /\ result' = [result EXCEPT ![p] = Returned(h.http)]
               /\ hist' = [hist EXCEPT ![p] = h]
               /\ UNCHANGED <<attempt, lastError, wakeAt>>
          ELSE Raise(p, MkError("", st, "freee API error", h.calls), h)
       /\ loc' = [loc EXCEPT ![p].status = st]
  /\ UNCHANGED <<now, env, limVars, tokVars, op, arg, grants>>

\* ------------------------------------- request cache (services/cache.js)
Null == "null"               \* null or undefined

\* req.query / params objects of the model, as <<key, value>> pairs in
\* insertion order
ParamObjects ==
  {<<<<"a", "1">>, <<"b", "2">>>>,
   <<<<"b", "2">>, <<"a", "1">>>>,
   <<<<"b", Null>>, <<"a", "1">>>>}

Endpoints == {"/journals", "/items"}

\* The endpoint and params of the calls of the model
CacheArgs ==
  {<<"/journals", q>> : q \in ParamObjects}
    \cup {<<"/items", <<<<"a", "1">>, <<"b", "2">>>>>>}

\* UTF-16 code unit of a key of the model: the order of Array.prototype.sort
KeyCode(k) == IF k = "a" THEN 97 ELSE 98

KeysOf(params) == {params[i][1] : i \in DOMAIN params}
ValueOf(params, k) ==
  LET i == CHOOSE j \in DOMAIN params : params[j][1] = k IN params[i][2]

MinKey(S) == CHOOSE k \in S : \A j \in S : KeyCode(k) <= KeyCode(j)

RECURSIVE SortKeys(_)
SortKeys(S) ==
  IF S = {} THEN <<>> ELSE <<MinKey(S)>> \o SortKeys(S \ {MinKey(S)})

\* Object.keys(params).sort()  (cache.js:78-79)
InsertionOrderKeys(params) == [i \in DOMAIN params |-> params[i][1]]
SortedKeys(params) == SortKeys(KeysOf(params))

\* .reduce(...): keys with an undefined or null value are left out
\* (cache.js:80-85)
RECURSIVE ReduceParams(_, _)
ReduceParams(params, ks) ==
  IF ks = <<>> THEN <<>>
  ELSE (IF ValueOf(params, Head(ks)) # Null
        THEN <<<<Head(ks), ValueOf(params, Head(ks))>>>>
        ELSE <<>>) \o ReduceParams(params, Tail(ks))

\* JSON.stringify / JSON.parse of a JSON document: the text, tagged
Stringify(v) == [json |-> v]
Parse(text) == text.json

\* crypto.createHash('sha256')...digest('hex'), taken to be collision free
Sha256(content) == <<"sha256", content>>

\* generateCacheKey: cache.js:77-93
generateCacheKey(endpoint, params) ==
  Sha256(<<endpoint, ":", Stringify(ReduceParams(params, SortedKeys(params)))>>)

CacheKeys == {generateCacheKey(a[1], a[2]) : a \in CacheArgs}

\* Response bodies: documents {n: ...} of handlers that succeed and the
\* error document {error: true, ...}
NoData == [kind |-> "none", n |-> 0]
ErrorBody == [kind |-> "error", n |-> 0]

\* LENGTH(data) of the texts of these documents
DataLength(text) == IF Parse(text).kind = "error" THEN 14 ELSE 7

NoRow == [present |-> FALSE, endpoint |-> "", data |-> Stringify(NoData),
          created_at |-> 0, expires_at |-> 0, access_count |-> 0,
          last_accessed |-> 0]

NoStats == [present |-> FALSE, hit_count |-> 0, miss_count |-> 0,
            total_size |-> 0, last_cleared |-> 0]

NoSet == [live |-> FALSE, data |-> NoData, at |-> 0, ttl |-> 0,
          expires_at |-> 0, params |-> <<>>, id |-> 0]

NoRet == [kind |-> "none", data |-> NoData, cached_at |-> 0,
          expires_at |-> 0, changes |-> 0, rows |-> <<>>, format |-> "",
          totals |-> <<>>, tokens |-> EmptyMap]

\* { data: JSON.parse(row.data), metadata, cached_at, expires_at }
\* (cache.js:129-134)
HitValue(row) == [NoRet EXCEPT !.kind = "hit", !.data = Parse(row.data),
                               !.cached_at = row.created_at,
                               !.expires_at = row.expires_at]
NullValue == [NoRet EXCEPT !.kind = "null"]
TrueValue == [NoRet EXCEPT !.kind = "true"]
FalseValue == [NoRet EXCEPT !.kind = "false"]

\* JavaScript values that reach the audit log: strings, numbers (by their
\* decimal text) and null/undefined
Str(x) == [t |-> "string", v |-> x]
Num(x) == [t |-> "number", v |-> x]
JsNull == [t |-> "null", v |-> ""]

\* An audit_log row or the entry object of logAuditEvent; response_status 0
\* and session_id 0 are null, touched records that a stored field was
\* changed after the insert
NoEntry == [id |-> 0, timestamp |-> 0, event_type |-> JsNull,
            user_id |-> JsNull, session_id |-> 0, method |-> JsNull,
            endpoint |-> JsNull, response_status |-> 0,
            resource_type |-> JsNull, action |-> JsNull, hash |-> <<>>,
            touched |-> FALSE]

NoCall == [endpoint |-> "", params |-> <<>>, data |-> NoData, ttl |-> 0,
           key |-> <<>>, now |-> 0, expiresAt |-> 0, row |-> NoRow,
           selectedAt |-> 0,
           seen |-> NoSet, ret |-> NoRet, method |-> "", outcome |-> "",
           statusCode |-> 0, session |-> 0, body |-> NoData,
           pending |-> {}, entry |-> NoEntry, errorEntry |-> NoEntry,
           audited |-> 0, id |-> 0, startTime |-> 0, endTime |-> 0,
           stats |-> <<>>, endpoints |-> {}, resources |-> {},
           verified |-> NoEntry, provider |-> "", tokenData |-> NoToken,
           cred |-> NoCredential, tokens |-> EmptyMap, before |-> EmptyMap,
           found |-> "", opened |-> FALSE, sealKey |-> "none"]

\* WHERE cache_key = ? AND expires_at > ?  (cache.js:111-113)
Live(row, t) == row.expires_at > t

\* WHERE expires_at <= ?  (cache.js:235)
SweptByAge(row, t) == row.created_at <= t
Swept(row, t) == row.expires_at <= t

\* const expiresAt = now + ttl  (cache.js:166)
ExpiresAtOnceSet(t, ttl) == t
ExpiresAt(t, ttl) == t + ttl

\* updateCacheStats: INSERT ... ON CONFLICT(endpoint) DO UPDATE
\* (cache.js:252-265)
UpdatedStats(st, isHit) ==
  [st EXCEPT !.present = TRUE,
             !.hit_count = @ + (IF isHit THEN 1 ELSE 0),
             !.miss_count = @ + (IF isHit THEN 0 ELSE 1)]

RECURSIVE SumLength(_, _)
SumLength(c, ks) ==
  IF ks = {} THEN 0
  ELSE LET k == CHOOSE x \in ks : TRUE IN
       DataLength(c[k].data) + SumLength(c, ks \ {k})

\* SELECT SUM(LENGTH(data)) FROM cache WHERE endpoint = ?  (cache.js:182)
TotalSize(c, e) ==
  SumLength(c, {k \in CacheKeys : c[k].present /\ c[k].endpoint = e})

\* Calls and requests the model starts
MaxCalls == 3

\* The payload and ttl of the saves of the model
SaveArgs == {<<[kind |-> "ok", n |-> 1], ClockStep>>,
             <<[kind |-> "ok", n |-> 2], 2 * ClockStep>>}

\* Task p, free or with its last call returned, makes call number
\* served + 1
Begin(p, o, c) ==
  /\ pc[p] \in {"idle", "done"}
  /\ served < MaxCalls
  /\ served' = served + 1
  /\ op' = [op EXCEPT ![p] = o]
  /\ call' = [call EXCEPT ![p] = [c EXCEPT !.id = served + 1]]

Step(p, to, c) ==
  /\ pc' = [pc EXCEPT ![p] = to]
  /\ call' = [call EXCEPT ![p] = c]
  /\ UNCHANGED <<op, served>>

\* getFromCache up to `await db.get(...)`: cache.js:101-110
StartGetFromCache(p) ==
  /\ \E a \in CacheArgs :
       Begin(p, "getFromCache",
             [NoCall EXCEPT !.endpoint = a[1], !.params = a[2],
                            !.key = generateCacheKey(a[1], a[2]),
                            !.now = now])
  /\ pc' = [pc EXCEPT ![p] = "cacheSelect"]
  /\ UNCHANGED <<now, accessVars, cache, cacheStats, lastSet, auditLog,
                 auditSummary>>

\* the SELECT runs: cache.js:110-116
CacheSelect(p) ==
  /\ pc[p] = "cacheSelect"
  /\ LET c == call[p]
         row == cache[c.key]
     IN
     IF row.present /\ Live(row, c.now)
     THEN Step(p, "cacheTouch", [c EXCEPT !.row = row, !.selectedAt = now,
                                          !.seen = lastSet[c.key]])
     ELSE Step(p, "cacheStat", [c EXCEPT !.row = NoRow, !.selectedAt = now,
                                         !.seen = lastSet[c.key]])
  /\ UNCHANGED <<now, accessVars, cache, cacheStats, lastSet, auditLog,
                 auditSummary>>

\* UPDATE cache SET access_count = access_count + 1, last_accessed = ?
\* (cache.js:118-124)
CacheTouch(p) ==
  /\ pc[p] = "cacheTouch"
  /\ cache' = [cache EXCEPT ![call[p].key] =
                 IF @.present
                 THEN [@ EXCEPT !.access_count = @ + 1,
                                !.last_accessed = call[p].now]
                 ELSE @]
  /\ Step(p, "cacheStat", call[p])
  /\ UNCHANGED <<now, accessVars, cacheStats, lastSet, auditLog, auditSummary>>

\* getFromCache returns v: to its caller, or into
\* `const cached = await getFromCache(endpoint, req.query)` of the cache
\* middleware (cache.js:363)
GetReturns(p, v) ==
  /\ call' = [call EXCEPT ![p] = [@ EXCEPT !.ret = v]]
  /\ pc' = [pc EXCEPT ![p] =
              IF op[p] = "getFromCache" THEN "done" ELSE "cached"]
  /\ UNCHANGED <<op, served>>

\* await updateCacheStats(endpoint, hit) and the return: cache.js:126-139
CacheStat(p) ==
  /\ pc[p] = "cacheStat"
  /\ LET c == call[p] IN
     /\ cacheStats' = [cacheStats EXCEPT
                         ![c.endpoint] = UpdatedStats(@, c.row.present)]
     /\ GetReturns(p, IF c.row.present THEN HitValue(c.row) ELSE NullValue)
  /\ UNCHANGED <<now, accessVars, cache, lastSet, auditLog, auditSummary>>

\* Payloads saved with the ttl values saveToCache takes without a test:
\* positive, zero and negative
AnyTtlSaveArgs == {<<[kind |-> "ok", n |-> 1], ClockStep>>,
                   <<[kind |-> "ok", n |-> 1], 0>>,
                   <<[kind |-> "ok", n |-> 2], 0 - ClockStep>>}

\* saveToCache up to `await db.run(INSERT OR REPLACE ...)`, for a payload
\* and ttl of S: cache.js:154-172
SaveToCacheOf(p, S) ==
  /\ \E a \in CacheArgs, v \in S :
       Begin(p, "saveToCache",
             [NoCall EXCEPT !.endpoint = a[1], !.params = a[2],
                            !.data = v[1], !.ttl = v[2],
                            !.key = generateCacheKey(a[1], a[2]),
                            !.now = now, !.expiresAt = ExpiresAt(now, v[2])])
  /\ pc' = [pc EXCEPT ![p] = "cacheInsert"]
  /\ UNCHANGED <<now, accessVars, cache, cacheStats, lastSet, auditLog,
                 auditSummary>>

StartSaveToCache(p) == SaveToCacheOf(p, SaveArgs)
StartSaveAnyTtl(p) == SaveToCacheOf(p, AnyTtlSaveArgs)

\* the row INSERT OR REPLACE writes: cache.js:173-176
NewRow(c) ==
  [present |-> TRUE, endpoint |-> c.endpoint, data |-> Stringify(c.data),
   created_at |-> c.now, expires_at |-> c.expiresAt, access_count |-> 0,
   last_accessed |-> c.now]

Written(c) == [live |-> TRUE, data |-> c.data, at |-> c.now, ttl |-> c.ttl,
               expires_at |-> c.expiresAt, params |-> c.params,
               id |-> c.id]

\* INSERT OR REPLACE INTO cache runs: cache.js:172-177
CacheInsert(p) ==
  /\ pc[p] = "cacheInsert"
  /\ cache' = [cache EXCEPT ![call[p].key] = NewRow(call[p])]
  /\ lastSet' = [lastSet EXCEPT ![call[p].key] = Written(call[p])]
  /\ Step(p, "cacheSize", call[p])
  /\ UNCHANGED <<now, accessVars, cacheStats, auditLog, auditSummary>>

\* UPDATE cache_stats SET total_size = ... and return true: cache.js:180-187
CacheSize(p) ==
  /\ pc[p] = "cacheSize"
  /\ cacheStats' = [cacheStats EXCEPT ![call[p].endpoint] =
                      IF @.present
                      THEN [@ EXCEPT !.total_size =
                                       TotalSize(cache, call[p].endpoint)]
                      ELSE @]
  /\ Step(p, "done", [call[p] EXCEPT !.ret = TrueValue])
  /\ UNCHANGED <<now, accessVars, cache, lastSet, auditLog, auditSummary>>

\* The calls of invalidateCache of the model: <<>> stands for no params
InvalidateArgs ==
  {<<"/journals", <<<<"a", "1">>, <<"b", "2">>>>>>, <<"/journals", <<>>>>,
   <<"/items", <<>>>>}

\* The rows the DELETE of invalidateCache removes from table c: WHERE
\* cache_key = ? when params are given, WHERE endpoint = ? otherwise
\* (cache.js:206-214)
InvalidatedByEndpoint(c, e, q) ==
  {k \in CacheKeys : c[k].present /\ c[k].endpoint = e}
Invalidated(c, e, q) ==
  IF q # <<>> THEN {generateCacheKey(e, q)}
  ELSE {k \in CacheKeys : c[k].present /\ c[k].endpoint = e}

\* invalidateCache(endpoint, params): one DELETE, by key when params are
\* given, by endpoint otherwise (cache.js:200-220)
InvalidateCache(p) ==
  /\ \E a \in InvalidateArgs :
       LET e == a[1]
           q == a[2]
           gone == Invalidated(cache, e, q)
       IN
       /\ Begin(p, "invalidateCache",
                [NoCall EXCEPT !.endpoint = e, !.params = q,
                               !.ret = TrueValue])
       /\ cache' = [k \in CacheKeys |-> IF k \in gone THEN NoRow ELSE cache[k]]
       /\ lastSet' = [k \in CacheKeys |->
                        IF k \in gone THEN NoSet ELSE lastSet[k]]
  /\ pc' = [pc EXCEPT ![p] = "done"]
  /\ UNCHANGED <<now, accessVars, cacheStats, auditLog, auditSummary>>

\* cleanExpiredCache up to `await db.run(DELETE ...)`: cache.js:226-234; also
\* what the hourly timer of initializeCache runs (cache.js:60-62)
StartCleanExpiredCache(p) ==
  /\ Begin(p, "cleanExpiredCache", [NoCall EXCEPT !.now = now])
  /\ pc' = [pc EXCEPT ![p] = "cacheSweep"]
  /\ UNCHANGED <<now, accessVars, cache, cacheStats, lastSet, auditLog,
                 auditSummary>>

\* DELETE FROM cache WHERE expires_at <= ? runs: cache.js:234-240
CacheSweep(p) ==
  /\ pc[p] = "cacheSweep"
  /\ LET gone == {k \in CacheKeys :
                    cache[k].present /\ Swept(cache[k], call[p].now)}
     IN
     /\ cache' = [k \in CacheKeys |-> IF k \in gone THEN NoRow ELSE cache[k]]
     /\ Step(p, "done", [call[p] EXCEPT !.ret = [NoRet EXCEPT
                                                   !.kind = "number",
                                                   !.changes = Cardinality(gone)]])
  /\ UNCHANGED <<now, accessVars, cacheStats, lastSet, auditLog, auditSummary>>

\* clearAllCache: DELETE FROM cache  (cache.js:323-329)
ClearAllCache(p) ==
  /\ Begin(p, "clearAllCache", NoCall)
  /\ pc' = [pc EXCEPT ![p] = "cacheCleared"]
  /\ cache' = [k \in CacheKeys |-> NoRow]
  /\ lastSet' = [k \in CacheKeys |-> NoSet]
  /\ UNCHANGED <<now, accessVars, cacheStats, auditLog, auditSummary>>

\* UPDATE cache_stats SET last_cleared = Date.now(): cache.js:330-332
ClearStamp(p) ==
  /\ pc[p] = "cacheCleared"
  /\ cacheStats' = [e \in Endpoints |->
                      IF cacheStats[e].present
                      THEN [cacheStats[e] EXCEPT !.last_cleared = now]
                      ELSE cacheStats[e]]
  /\ Step(p, "done", [call[p] EXCEPT !.ret = TrueValue])
  /\ UNCHANGED <<now, accessVars, cache, lastSet, auditLog, auditSummary>>

\* ------------------------------------ audit log (services/auditLog.js)
DayMs == 86400000

\* x || fallback: undefined, null, '' and 0 give the fallback
Falsy(x) == x.t = "null" \/ x.v = "" \/ (x.t = "number" /\ x.v = "0")
OrElse(x, d) == IF Falsy(x) THEN d ELSE x

\* A value bound to a column declared TEXT: SQLite keeps a string or NULL
\* and stores a number as its text (auditLog.js:31-53)
TextColumn(x) == IF x.t = "number" THEN Str(x.v) ELSE x

NoEvent == [type |-> JsNull, user_id |-> JsNull, session_id |-> 0,
            method |-> JsNull, endpoint |-> JsNull, response_status |-> 0,
            resource_type |-> JsNull, action |-> JsNull]

\* logDataModification(params): auditLog.js:258-264
DataModification(params) ==
  [params EXCEPT !.type = Str("DATA_MODIFICATION"),
                 !.action = OrElse(params.action, Str("UPDATE"))]

\* logAuthEvent(params): auditLog.js:271-276
AuthEvent(params) == [params EXCEPT !.type = Str("AUTHENTICATION")]

\* The events the model logs directly: a login of user 'u1', the budget
\* modification of POST /budgets (part_001:264-272) by req.user.id 42 and
\* by 'system', and the empty event
AuditEvents ==
  {AuthEvent([NoEvent EXCEPT !.user_id = Str("u1"),
                             !.action = Str("LOGIN")]),
   DataModification([NoEvent EXCEPT !.user_id = Num("42"),
                                    !.resource_type = Str("budget"),
                                    !.action = Str("CREATE")]),
   DataModification([NoEvent EXCEPT !.user_id = Str("system"),
                                    !.resource_type = Str("budget"),
                                    !.action = Str("CREATE")]),
   NoEvent}

\* generateAuditHash(entry): auditLog.js:95-107
generateAuditHash(entry) ==
  Sha256(Stringify([timestamp |-> entry.timestamp,
                    event_type |-> entry.event_type,
                    endpoint |-> entry.endpoint,
                    user_id |-> entry.user_id,
                    action |-> entry.action]))

\* const entry = {...}; entry.hash = generateAuditHash(entry)
\* (auditLog.js:119-141)
NewEntry(event, t) ==
  LET entry == [NoEntry EXCEPT
                  !.timestamp = t,
                  !.event_type = OrElse(event.type, Str("UNKNOWN")),
                  !.user_id = OrElse(event.user_id, JsNull),
                  !.session_id = event.session_id,
                  !.method = OrElse(event.method, JsNull),
                  !.endpoint = OrElse(event.endpoint, JsNull),
                  !.response_status = event.response_status,
                  !.resource_type = OrElse(event.resource_type, JsNull),
                  !.action = OrElse(event.action, JsNull)]
  IN [entry EXCEPT !.hash = generateAuditHash(entry)]

\* The row of audit_log the INSERT makes of the entry: id AUTOINCREMENT, the
\* TEXT columns by their affinity (auditLog.js:31-53, 144-159)
StoredRow(entry, id) ==
  [entry EXCEPT !.id = id,
                !.event_type = TextColumn(@),
                !.user_id = TextColumn(@),
                !.method = TextColumn(@),
                !.endpoint = TextColumn(@),
                !.resource_type = TextColumn(@),
                !.action = TextColumn(@)]

\* INSERT INTO audit_log (...) VALUES (...)  (auditLog.js:144-159)
InsertedOrReplaced(log, entry) ==
  IF log # <<>> /\ log[Len(log)].timestamp = entry.timestamp
  THEN [log EXCEPT ![Len(log)] = StoredRow(entry, Len(log))]
  ELSE Append(log, StoredRow(entry, Len(log) + 1))
Inserted(log, entry) == Append(log, StoredRow(entry, Len(log) + 1))

\* logAuditEvent(event) up to `await db.run(INSERT ...)`: auditLog.js:114-143
StartLogAuditEvent(p) ==
  /\ \E event \in AuditEvents :
       Begin(p, "logAuditEvent",
             [NoCall EXCEPT !.entry = NewEntry(event, now), !.now = now])
  /\ pc' = [pc EXCEPT ![p] = "auditInsert"]
  /\ UNCHANGED <<now, accessVars, cache, cacheStats, lastSet, auditLog,
                 auditSummary>>

\* the INSERT runs and logAuditEvent returns true: auditLog.js:143-161
AuditInsert(p) ==
  /\ pc[p] = "auditInsert"
  /\ auditLog' = Inserted(auditLog, call[p].entry)
  /\ Step(p, "done", [call[p] EXCEPT !.ret = TrueValue,
                                     !.audited = @ + 1])
  /\ UNCHANGED <<now, accessVars, cache, cacheStats, lastSet, auditSummary>>

\* The filters of the queries of the model: none, an event type, a user id
NoFilter == [event_type |-> JsNull, user_id |-> JsNull]
AuditFilters ==
  {NoFilter,
   [NoFilter EXCEPT !.event_type = Str("DATA_MODIFICATION")],
   [NoFilter EXCEPT !.user_id = Str("42")]}

\* WHERE 1=1 AND event_type = ? AND user_id = ?  (auditLog.js:300-319)
Matches(row, filters) ==
  /\ Falsy(filters.event_type) \/ row.event_type = filters.event_type
  /\ Falsy(filters.user_id) \/ row.user_id = filters.user_id

\* The rows of a SELECT over audit_log, without their order
Selected(log, filters) ==
  {log[i] : i \in {j \in DOMAIN log : Matches(log[j], filters)}}

\* queryAuditLogs(filters): one SELECT (auditLog.js:295-367)
QueryAuditLogs(p) ==
  /\ \E filters \in AuditFilters :
       Begin(p, "queryAuditLogs",
             [NoCall EXCEPT !.ret = [NoRet EXCEPT
                                       !.kind = "rows",
                                       !.rows = Selected(auditLog, filters)]])
  /\ pc' = [pc EXCEPT ![p] = "done"]
  /\ UNCHANGED <<now, accessVars, cache, cacheStats, lastSet, auditLog,
                 auditSummary>>

\* exportAuditLogs(filters, format): queryAuditLogs, then the text in the
\* format, or the throw for another format (auditLog.js:552-572)
ExportAuditLogs(p) ==
  /\ \E filters \in AuditFilters, format \in {"json", "csv", "xml"} :
       Begin(p, "exportAuditLogs",
             [NoCall EXCEPT !.ret =
                [NoRet EXCEPT
                   !.kind = IF format \in {"json", "csv"} THEN "text"
                            ELSE "throws",
                   !.format = format,
                   !.rows = Selected(auditLog, filters)]])
  /\ pc' = [pc EXCEPT ![p] = "done"]
  /\ UNCHANGED <<now, accessVars, cache, cacheStats, lastSet, auditLog,
                 auditSummary>>

\* Midnight before time t (yesterday.setHours(0, 0, 0, 0)), in UTC
DayStart(t) == t - (t % DayMs)

InWindow(row, c) == row.timestamp >= c.startTime /\ row.timestamp < c.endTime

WindowRows(log, c) == {log[i] : i \in {j \in DOMAIN log : InWindow(log[j], c)}}

\* generateDailySummary up to the first SELECT: the window is yesterday
\* (auditLog.js:373-388)
StartGenerateDailySummary(p) ==
  /\ Begin(p, "generateDailySummary",
           [NoCall EXCEPT !.startTime = DayStart(now) - DayMs,
                          !.endTime = DayStart(now), !.now = now])
  /\ pc' = [pc EXCEPT ![p] = "summaryStats"]
  /\ UNCHANGED <<now, accessVars, cache, cacheStats, lastSet, auditLog,
                 auditSummary>>

\* SELECT COUNT(*), COUNT(DISTINCT user_id), COUNT(CASE ...) ...: a NULL
\* user_id or response_status is not counted (auditLog.js:391-401)
SummaryStats(p) ==
  /\ pc[p] = "summaryStats"
  /\ LET c == call[p]
         rows == WindowRows(auditLog, c)
     IN
     Step(p, "summaryEndpoints",
          [c EXCEPT !.stats =
             [total_requests |-> Cardinality(rows),
              unique_users |->
                Cardinality({r.user_id : r \in rows} \ {JsNull}),
              successful_requests |->
                Cardinality({r \in rows : r.response_status # 0
                                          /\ r.response_status < 400}),
              failed_requests |->
                Cardinality({r \in rows : r.response_status >= 400})]])
  /\ UNCHANGED <<now, accessVars, cache, cacheStats, lastSet, auditLog,
                 auditSummary>>

\* SELECT endpoint, COUNT(*) ... GROUP BY endpoint  (auditLog.js:404-412)
SummaryEndpoints(p) ==
  /\ pc[p] = "summaryEndpoints"
  /\ LET c == call[p]
         rows == WindowRows(auditLog, c)
     IN
     Step(p, "summaryResources",
          [c EXCEPT !.endpoints =
             {<<e, Cardinality({r \in rows : r.endpoint = e})>> :
                e \in {r.endpoint : r \in rows}}])
  /\ UNCHANGED <<now, accessVars, cache, cacheStats, lastSet, auditLog,
                 auditSummary>>

\* SELECT resource_type, COUNT(*) ... AND event_type = 'DATA_MODIFICATION'
\* GROUP BY resource_type  (auditLog.js:415-422)
SummaryResources(p) ==
  /\ pc[p] = "summaryResources"
  /\ LET c == call[p]
         rows == {r \in WindowRows(auditLog, c) :
                    r.event_type = Str("DATA_MODIFICATION")}
     IN
     Step(p, "summarySave",
          [c EXCEPT !.resources =
             {<<t, Cardinality({r \in rows : r.resource_type = t})>> :
                t \in {r.resource_type : r \in rows}}])
  /\ UNCHANGED <<now, accessVars, cache, cacheStats, lastSet, auditLog,
                 auditSummary>>

\* INSERT OR REPLACE INTO audit_summary: one row for a date
\* (auditLog.js:425-443)
SummarySave(p) ==
  /\ pc[p] = "summarySave"
  /\ LET c == call[p]
         row == [date |-> c.startTime, stats |-> c.stats,
                 endpoints_accessed |-> Stringify(c.endpoints),
                 resources_modified |-> Stringify(c.resources)]
     IN
     auditSummary' =
       {s \in auditSummary : s.date # c.startTime} \cup {row}
  /\ Step(p, "done", [call[p] EXCEPT !.ret = TrueValue])
  /\ UNCHANGED <<now, accessVars, cache, cacheStats, lastSet, auditLog>>

\* Math.max over the summaries, from 0 (auditLog.js:491)
MaxOf(S) == IF S = {} THEN 0 ELSE CHOOSE m \in S : \A x \in S : x <= m

RECURSIVE SumOf(_, _)
SumOf(S, f) ==
  IF S = {} THEN 0
  ELSE LET s == CHOOSE x \in S : TRUE IN s.stats[f] + SumOf(S \ {s}, f)

\* getAuditStatistics(): SELECT * FROM audit_summary and the totals
\* (auditLog.js:456-512)
GetAuditStatistics(p) ==
  /\ Begin(p, "getAuditStatistics",
           [NoCall EXCEPT !.ret =
              [NoRet EXCEPT
                 !.kind = "statistics",
                 !.totals =
                   [total_requests |-> SumOf(auditSummary, "total_requests"),
                    unique_users |->
                      MaxOf({s.stats.unique_users : s \in auditSummary}),
                    successful_requests |->
                      SumOf(auditSummary, "successful_requests"),
                    failed_requests |->
                      SumOf(auditSummary, "failed_requests")]]])
  /\ pc' = [pc EXCEPT ![p] = "done"]
  /\ UNCHANGED <<now, accessVars, cache, cacheStats, lastSet, auditLog,
                 auditSummary>>

\* entry.hash === expectedHash over the row as it is read back
\* (auditLog.js:530-538)
HashMatches(row) == row.hash = generateAuditHash(row)

\* verifyAuditLogIntegrity(id): one SELECT by id, false for no row
\* (auditLog.js:519-544)
VerifyAuditLogIntegrity(p) ==
  /\ \E id \in 1..MaxCalls :
       LET found == id \in DOMAIN auditLog
           row == IF found THEN auditLog[id] ELSE NoEntry
       IN
       Begin(p, "verifyAuditLogIntegrity",
             [NoCall EXCEPT !.verified = row,
                            !.ret = IF found /\ HashMatches(row)
                                    THEN TrueValue ELSE FalseValue])
  /\ pc' = [pc EXCEPT ![p] = "done"]
  /\ UNCHANGED <<now, accessVars, cache, cacheStats, lastSet, auditLog,
                 auditSummary>>

\* The values a row's field is changed to directly in storage
Tampered ==
  {<<"timestamp", 1>>, <<"event_type", Str("SYSTEM")>>,
   <<"endpoint", Str("/tampered")>>, <<"user_id", Str("mallory")>>,
   <<"action", Str("DELETE")>>}

\* UPDATE audit_log SET <field> = <value> WHERE id = ?, run once against
\* the database file by someone else than the service
Tamper ==
  /\ \A j \in DOMAIN auditLog : ~auditLog[j].touched
  /\ \E i \in DOMAIN auditLog, m \in Tampered :
       /\ auditLog[i][m[1]] # m[2]
       /\ auditLog' = [auditLog EXCEPT ![i] =
                         [@ EXCEPT ![m[1]] = m[2], !.touched = TRUE]]
  /\ UNCHANGED <<now, accessVars, op, pc, cache, cacheStats, lastSet,
                 auditSummary, call, served>>

\* ------------------- a request through the router (routes/freeeRoutes.js)
\* getCacheConfig()['/freee' + path].ttl, 0 for a path without an entry
\* (cache.js:401-414)
ConfigTtl(path) ==
  IF path = "/journals" THEN 300000
  ELSE IF path = "/items" THEN 1800000 ELSE 0

\* The requests of the model: GET of a cached path and POST to it (not
\* cached, no route: 404)
Requests ==
  {<<"GET", "/journals", <<<<"a", "1">>, <<"b", "2">>>>>>,
   <<"POST", "/journals", <<<<"a", "1">>, <<"b", "2">>>>>>}

\* How a request ends in its handler: res.json(data), the handler's own
\* res.status(400).json(...), next(error) answered by the error handler
\* with 500, no route answered with 404
Outcomes(c) ==
  IF c.method = "GET" THEN {"ok", "invalid", "throws"} ELSE {"notFound"}

StatusOf(outcome) ==
  IF outcome = "ok" THEN 200
  ELSE IF outcome = "invalid" THEN 400
  ELSE IF outcome = "notFound" THEN 404 ELSE 500

BodyOf(outcome) ==
  IF outcome = "ok" THEN [kind |-> "ok", n |-> 1] ELSE ErrorBody

\* The event auditMiddleware logs: auditLog.js:207-221, 233-245
ApiEvent(type, c, status) ==
  [NoEvent EXCEPT !.type = Str(type), !.session_id = c.session,
                  !.user_id = OrElse(JsNull, Str("anonymous")),
                  !.method = Str(c.method), !.endpoint = Str(c.endpoint),
                  !.response_status = status]

\* auditMiddleware (startTime, sessionId, res.json and 'finish' hooks), the
\* cache wrapper of the router and cacheMiddleware up to the SELECT of
\* getFromCache: auditLog.js:193-250, part_001:29-37, cache.js:350-363,
\* 101-110
StartRequest(p) ==
  /\ \E r \in Requests :
       LET cached == r[1] = "GET" /\ ConfigTtl(r[2]) # 0 IN
       /\ Begin(p, "request",
                [NoCall EXCEPT
                   !.method = r[1], !.endpoint = r[2], !.params = r[3],
                   !.startTime = now, !.session = served + 1,
                   !.ttl = ConfigTtl(r[2]),
                   !.key = IF cached THEN generateCacheKey(r[2], r[3])
                           ELSE <<>>,
                   !.now = now])
       /\ pc' = [pc EXCEPT ![p] = IF cached THEN "cacheSelect"
                                  ELSE "handler"]
  /\ UNCHANGED <<now, accessVars, cache, cacheStats, lastSet, auditLog,
                 auditSummary>>

\* res.status(status).json(data) as the request has it hooked: the save of
\* cacheMiddleware when it is installed (saveToCache up to its INSERT), the
\* API_REQUEST event of auditMiddleware (logAuditEvent up to its INSERT),
\* then the response; 'finish' follows (cache.js:382-392,
\* auditLog.js:203-225)
Responded(c, status, data, saves) ==
  [c EXCEPT !.statusCode = status, !.body = data, !.data = data,
            !.now = now, !.expiresAt = ExpiresAt(now, c.ttl),
            !.entry = NewEntry(ApiEvent("API_REQUEST", c, status), now),
            !.pending = (IF saves THEN {"cacheInsert"} ELSE {})
                          \cup {"auditInsert", "finish"}]

\* if (cached) return res.json({...cached.data, _cache}): cache.js:365-374
CacheHit(p) ==
  /\ pc[p] = "cached"
  /\ call[p].ret.kind = "hit"
  /\ Step(p, "responded",
          Responded(call[p], 200, call[p].ret.data, FALSE))
  /\ UNCHANGED <<now, accessVars, cache, cacheStats, lastSet, auditLog,
                 auditSummary>>

\* the miss: res.json is overridden and next() runs the route
\* (cache.js:376-394)
CacheMiss(p) ==
  /\ pc[p] = "cached"
  /\ call[p].ret.kind # "hit"
  /\ Step(p, "handler", [call[p] EXCEPT !.outcome = "saves"])
  /\ UNCHANGED <<now, accessVars, cache, cacheStats, lastSet, auditLog,
                 auditSummary>>

\* The route handler, or the 404 and error handlers of the application,
\* answers (part_001:41-77, part_012:94-114)
Handler(p) ==
  /\ pc[p] = "handler"
  /\ \E outcome \in Outcomes(call[p]) :
       Step(p, "responded",
            Responded([call[p] EXCEPT !.outcome = outcome],
                      StatusOf(outcome), BodyOf(outcome),
                      call[p].outcome = "saves"))
  /\ UNCHANGED <<now, accessVars, cache, cacheStats, lastSet, auditLog,
                 auditSummary>>

\* A step made for the request after its response: the request is over
\* when none is left
Settle(p, c) == Step(p, IF c.pending = {} THEN "done" ELSE "responded", c)

\* INSERT OR REPLACE INTO cache of the save the response started
\* (cache.js:172-177)
ResponseCacheInsert(p) ==
  /\ pc[p] = "responded"
  /\ "cacheInsert" \in call[p].pending
  /\ cache' = [cache EXCEPT ![call[p].key] = NewRow(call[p])]
  /\ lastSet' = [lastSet EXCEPT ![call[p].key] = Written(call[p])]
  /\ Settle(p, [call[p] EXCEPT
                  !.pending = (@ \ {"cacheInsert"}) \cup {"cacheSize"}])
  /\ UNCHANGED <<now, accessVars, cacheStats, auditLog, auditSummary>>

\* UPDATE cache_stats SET total_size of that save (cache.js:180-185)
ResponseCacheSize(p) ==
  /\ pc[p] = "responded"
  /\ "cacheSize" \in call[p].pending
  /\ cacheStats' = [cacheStats EXCEPT ![call[p].endpoint] =
                      IF @.present
                      THEN [@ EXCEPT !.total_size =
                                       TotalSize(cache, call[p].endpoint)]
                      ELSE @]
  /\ Settle(p, [call[p] EXCEPT !.pending = @ \ {"cacheSize"}])
  /\ UNCHANGED <<now, accessVars, cache, lastSet, auditLog, auditSummary>>

\* INSERT INTO audit_log of the API_REQUEST event (auditLog.js:143-159)
ResponseAuditInsert(p) ==
  /\ pc[p] = "responded"
  /\ "auditInsert" \in call[p].pending
  /\ auditLog' = Inserted(auditLog, call[p].entry)
  /\ Settle(p, [call[p] EXCEPT !.pending = @ \ {"auditInsert"},
                               !.audited = @ + 1])
  /\ UNCHANGED <<now, accessVars, cache, cacheStats, lastSet, auditSummary>>

\* res.on('finish'): a status of 400 or more logs an API_ERROR event
\* (auditLog.js:228-247)
Finish(p) ==
  /\ pc[p] = "responded"
  /\ "finish" \in call[p].pending
  /\ LET c == call[p] IN
     IF c.statusCode >= 400
     THEN Settle(p, [c EXCEPT
                       !.errorEntry =
                         NewEntry(ApiEvent("API_ERROR", c, c.statusCode),
                                  now),
                       !.pending = (@ \ {"finish"}) \cup {"errorInsert"}])
     ELSE Settle(p, [c EXCEPT !.pending = @ \ {"finish"}])
  /\ UNCHANGED <<now, accessVars, cache, cacheStats, lastSet, auditLog,
                 auditSummary>>

\* INSERT INTO audit_log of the API_ERROR event (auditLog.js:143-159)
ResponseErrorInsert(p) ==
  /\ pc[p] = "responded"
  /\ "errorInsert" \in call[p].pending
  /\ auditLog' = Inserted(auditLog, call[p].errorEntry)
  /\ Settle(p, [call[p] EXCEPT !.pending = @ \ {"errorInsert"},
                               !.audited = @ + 1])
  /\ UNCHANGED <<now, accessVars, cache, cacheStats, lastSet, auditSummary>>

\* ------------------------- credential store (services/tokenStorage.js)
\* Keys: "K1" is the key the stored file was sealed with, "K2" a key
\* crypto.randomBytes(32) makes now, "short" a .key file that is not 32
\* bytes long, "none" no key
KeyValid(k) == k \in {"K1", "K2"}

\* The store as every other part of the model sees it: key loaded, file
\* sealed with it
SealedVault == [keyFile |-> "K1", encryptionKey |-> "K1", file |-> "sealed",
                sealedWith |-> "K1"]

\* getOrCreateKey(): the key in memory, else the .key file, else a new key
\* written to .key (tokenStorage.js:15-34)
GotKey(v) ==
  IF v.encryptionKey # "none" THEN v
  ELSE IF v.keyFile # "none" THEN [v EXCEPT !.encryptionKey = v.keyFile]
  ELSE [v EXCEPT !.encryptionKey = "K2", !.keyFile = "K2"]

\* JSON.parse(encryptedData) and decrypt(parsed) go through: the file is
\* there, whole, and sealed with the key in memory (tokenStorage.js:52-73)
Decrypts(v) ==
  v.file = "sealed" /\ KeyValid(v.encryptionKey)
    /\ v.sealedWith = v.encryptionKey

\* What loadSecureTokens resolves to: the map of the file, or {} from
\* either branch of its catch (tokenStorage.js:73-80)
Loaded(v, st) ==
  IF Decrypts(v) THEN [kind |-> "map", tokens |-> st]
  ELSE [kind |-> "map", tokens |-> EmptyMap]

\* What of the file a reader holding the key it was sealed with can read
Readable(v, st) == IF v.file = "sealed" THEN st ELSE EmptyMap

vaultFrame == <<now, env, maxTokens, refillRate, tokens, lastRefill,
                cachedTokens, tokenExpiresAt, issued, arg, attempt,
                lastError, wakeAt, result, loc, hist, grants, cache,
                cacheStats, lastSet, auditLog, auditSummary>>

\* loadSecureTokens() called directly, up to `await getOrCreateKey()`
\* (tokenStorage.js:67-69)
StartLoadSecureTokens(p) ==
  /\ Begin(p, "loadSecureTokens",
           [NoCall EXCEPT !.before = Readable(vault, store),
                          !.found = vault.file])
  /\ pc' = [pc EXCEPT ![p] = "loadKey"]
  /\ UNCHANGED <<vaultFrame, store, vault>>

\* storeTokenSecurely(provider, tokenData) up to `await getOrCreateKey()`
\* of its load (tokenStorage.js:96-97, 67-69)
StartStoreTokenSecurely(p) ==
  /\ \E q \in Providers :
       Begin(p, "storeTokenSecurely",
             [NoCall EXCEPT !.provider = q,
                            !.tokenData = FirstIssued + served,
                            !.before = Readable(vault, store),
                            !.found = vault.file])
  /\ pc' = [pc EXCEPT ![p] = "loadKey"]
  /\ UNCHANGED <<vaultFrame, store, vault>>

\* deleteStoredToken(provider) up to `await getOrCreateKey()` of its load
\* (tokenStorage.js:123-124, 67-69)
StartDeleteStoredToken(p) ==
  /\ \E q \in Providers :
       Begin(p, "deleteStoredToken",
             [NoCall EXCEPT !.provider = q,
                            !.before = Readable(vault, store),
                            !.found = vault.file])
  /\ pc' = [pc EXCEPT ![p] = "loadKey"]
  /\ UNCHANGED <<vaultFrame, store, vault>>

\* getOrCreateKey resolves in loadSecureTokens; fs.readFile of the token
\* file starts (tokenStorage.js:69-70)
LoadKey(p) ==
  /\ pc[p] = "loadKey"
  /\ vault' = GotKey(vault)
  /\ Step(p, "loadFile", call[p])
  /\ UNCHANGED <<vaultFrame, store>>

\* The read resolves and a direct loadSecureTokens returns
\* (tokenStorage.js:70-80)
LoadReturns(p) ==
  /\ pc[p] = "loadFile"
  /\ op[p] = "loadSecureTokens"
  /\ LET got == Loaded(vault, store) IN
     Step(p, "done", [call[p] EXCEPT
                        !.found = vault.file,
                        !.opened = Decrypts(vault),
                        !.ret = [NoRet EXCEPT !.kind = got.kind,
                                              !.tokens = got.tokens]])
  /\ UNCHANGED <<vaultFrame, store, vault>>

\* The entry storeTokenSecurely builds (tokenStorage.js:99-110)
NewCredential(tokenData, t) ==
  [present |-> TRUE, access_token |-> tokenData, refresh_token |-> tokenData,
   expires_at |-> t + DefaultExpiresIn * 1000]

\* The read resolves in storeTokenSecurely: tokens[provider] = {...}, then
\* saveSecureTokens up to `await getOrCreateKey()` (tokenStorage.js:97-112,
\* 83-85)
StoreAfterLoad(p) ==
  /\ pc[p] = "loadFile"
  /\ op[p] = "storeTokenSecurely"
  /\ LET c == call[p]
         cred == NewCredential(c.tokenData, now)
     IN
     Step(p, "saveKey",
          [c EXCEPT !.cred = cred,
                    !.tokens = [Loaded(vault, store).tokens
                                  EXCEPT ![c.provider] = cred]])
  /\ UNCHANGED <<vaultFrame, store, vault>>

\* The read resolves in deleteStoredToken: delete tokens[provider], then
\* saveSecureTokens up to `await getOrCreateKey()` (tokenStorage.js:124-126,
\* 83-85)
DeleteAfterLoad(p) ==
  /\ pc[p] = "loadFile"
  /\ op[p] = "deleteStoredToken"
  /\ LET c == call[p] IN
     Step(p, "saveKey",
          [c EXCEPT !.tokens = [Loaded(vault, store).tokens
                                  EXCEPT ![c.provider] = NoCredential]])
  /\ UNCHANGED <<vaultFrame, store, vault>>

\* getOrCreateKey resolves in saveSecureTokens; encrypt(jsonStr) seals the
\* map with the key in memory, or createCipheriv throws for a key of the
\* wrong length and the operation fails; fs.writeFile starts
\* (tokenStorage.js:85-93, 36-50)
SaveKey(p) ==
  /\ pc[p] = "saveKey"
  /\ vault' = GotKey(vault)
  /\ IF KeyValid(GotKey(vault).encryptionKey)
     THEN Step(p, "fileWrite",
               [call[p] EXCEPT !.sealKey = GotKey(vault).encryptionKey])
     ELSE Step(p, "done", [call[p] EXCEPT !.ret = [NoRet EXCEPT
                                                     !.kind = "throws"]])
  /\ UNCHANGED <<vaultFrame, store>>

\* fs.writeFile replaces the token file; chmod, and the operation returns
\* (tokenStorage.js:88-89, 113-115, 127)
FileWrite(p) ==
  /\ pc[p] = "fileWrite"
  /\ vault' = [vault EXCEPT !.file = "sealed",
                            !.sealedWith = call[p].sealKey]
  /\ store' = call[p].tokens
  /\ Step(p, "done", [call[p] EXCEPT !.ret = TrueValue])
  /\ UNCHANGED vaultFrame

\* ------------------------------------------------------------------ Init
InitTasks ==
  /\ op = [p \in Procs |-> "none"]
  /\ arg = [p \in Procs |-> NoArg]
  /\ pc = [p \in Procs |-> "idle"]
  /\ attempt = [p \in Procs |-> 0]
  /\ lastError = [p \in Procs |-> NoError]
  /\ wakeAt = [p \in Procs |-> 0]
  /\ result = [p \in Procs |-> NoResult]
  /\ loc = [p \in Procs |-> NoLoc]
  /\ hist = [p \in Procs |-> NoHist]
  /\ grants = <<>>

DefaultEnv == [FREEE_ACCESS_TOKEN |-> FALSE, QB_ACCESS_TOKEN |-> FALSE,
               credentials |-> TRUE, development |-> FALSE,
               FREEE_COMPANY_ID |-> TRUE]

InitTables ==
  /\ cache = [k \in CacheKeys |-> NoRow]
  /\ cacheStats = [e \in Endpoints |-> NoStats]
  /\ lastSet = [k \in CacheKeys |-> NoSet]
  /\ auditSummary = {}
  /\ call = [p \in Procs |-> NoCall]
  /\ served = 0

InitStore ==
  /\ InitTables
  /\ vault = SealedVault

InitServices ==
  /\ InitStore
  /\ auditLog = <<>>

InitQuiet ==
  /\ now = StartTime
  /\ env = DefaultEnv
  /\ maxTokens = FreeeMaxTokens
  /\ refillRate = FreeeRefillRate
  /\ tokens = FreeeMaxTokens * TokenScale
  /\ lastRefill = StartTime
  /\ cachedTokens = [q \in Providers |-> NoToken]
  /\ tokenExpiresAt = [q \in Providers |-> 0]
  /\ store = [q \in Providers |-> NoCredential]
  /\ issued = 0

\* ------------------------------------------- the retry controller alone
InitRetry == InitTasks /\ InitQuiet /\ InitServices

NextRetry ==
  \/ Tick /\ UNCHANGED svcVars
  \/ TimerDue /\ UNCHANGED svcVars
  \/ StartWork(1) /\ UNCHANGED svcVars
  \/ InvokeWork(1) /\ UNCHANGED svcVars
  \/ BackoffWake(1) /\ UNCHANGED svcVars

SpecRetry == InitRetry /\ [][NextRetry]_vars

\* ---------------------------------------------------- the bucket alone
\* The caller takes the result of a finished call; the task is free for
\* the next call.
Return(p) ==
  /\ pc[p] = "done"
  /\ Len(grants) < MaxGrants
  /\ pc' = [pc EXCEPT ![p] = "idle"]
  /\ op' = [op EXCEPT ![p] = "none"]
  /\ arg' = [arg EXCEPT ![p] = NoArg]
  /\ attempt' = [attempt EXCEPT ![p] = 0]
  /\ lastError' = [lastError EXCEPT ![p] = NoError]
  /\ wakeAt' = [wakeAt EXCEPT ![p] = 0]
  /\ result' = [result EXCEPT ![p] = NoResult]
  /\ loc' = [loc EXCEPT ![p] = NoLoc]
  /\ hist' = [hist EXCEPT ![p] = NoHist]
  /\ UNCHANGED <<now, env, limVars, tokVars, grants>>

LimiterOptions ==
  {[maxTokens |-> 2, refillRate |-> 1], [maxTokens |-> 1, refillRate |-> 2],
   [maxTokens |-> FreeeMaxTokens, refillRate |-> FreeeRefillRate],
   [maxTokens |-> 0, refillRate |-> 0]}

InitLimiter ==
  /\ InitTasks
  /\ InitServices
  /\ now = StartTime
  /\ env = DefaultEnv
  /\ \E o \in LimiterOptions :
       /\ maxTokens = NewMaxTokens(o)
       /\ refillRate = NewRefillRate(o)
       /\ tokens = NewMaxTokens(o) * TokenScale
  /\ lastRefill = StartTime
  /\ cachedTokens = [q \in Providers |-> NoToken]
  /\ tokenExpiresAt = [q \in Providers |-> 0]
  /\ store = [q \in Providers |-> NoCredential]
  /\ issued = 0

NextLimiter ==
  \/ Tick /\ UNCHANGED svcVars
  \/ TimerDue /\ UNCHANGED svcVars
  \/ \E p \in Procs :
       \/ Len(grants) < MaxGrants /\ StartAcquire(p) /\ UNCHANGED svcVars
       \/ Len(grants) < MaxGrants /\ TryAcquire(p) /\ UNCHANGED svcVars
       \/ Len(grants) < MaxGrants /\ RefillCall(p) /\ UNCHANGED svcVars
       \/ Acquire(p) /\ UNCHANGED svcVars
       \/ LimiterWake(p) /\ UNCHANGED svcVars
       \/ Return(p) /\ UNCHANGED svcVars

SpecLimiter == InitLimiter /\ [][NextLimiter]_vars

\* ---- Callers of acquire() on one bucket, each calling once, the bucket
\* ---- full, empty or holding half a token as earlier calls left it.  The
\* ---- event loop runs every continuation that is ready (weak fairness of
\* ---- Acquire and LimiterWake) and the clock reaches the time of every
\* ---- pending timer (weak fairness of TimerDue).
InitWaiters ==
  /\ InitTasks
  /\ InitServices
  /\ now = StartTime
  /\ env = DefaultEnv
  /\ \E o \in LimiterOptions :
       /\ maxTokens = NewMaxTokens(o)
       /\ refillRate = NewRefillRate(o)
       /\ tokens \in {NewMaxTokens(o) * TokenScale, TokenScale \div 2, 0}
  /\ lastRefill = StartTime
  /\ cachedTokens = [q \in Providers |-> NoToken]
  /\ tokenExpiresAt = [q \in Providers |-> 0]
  /\ store = [q \in Providers |-> NoCredential]
  /\ issued = 0

NextWaiters ==
  \/ Tick /\ UNCHANGED svcVars
  \/ TimerDue /\ UNCHANGED svcVars
  \/ \E p \in Procs :
       \/ StartAcquire(p) /\ UNCHANGED svcVars
       \/ Acquire(p) /\ UNCHANGED svcVars
       \/ LimiterWake(p) /\ UNCHANGED svcVars

FairWaiters ==
  /\ WF_vars(TimerDue /\ UNCHANGED svcVars)
  /\ \A p \in Procs :
       /\ WF_vars(Acquire(p) /\ UNCHANGED svcVars)
       /\ WF_vars(LimiterWake(p) /\ UNCHANGED svcVars)

SpecWaiters == InitWaiters /\ [][NextWaiters]_vars /\ FairWaiters

\* ------------------------------------------- the token manager alone
StoredCredential == [present |-> TRUE, access_token |-> OldToken,
                     refresh_token |-> OldRefresh, expires_at |-> 0]

TokenEnvs ==
  {DefaultEnv,
   [DefaultEnv EXCEPT !.FREEE_ACCESS_TOKEN = TRUE, !.QB_ACCESS_TOKEN = TRUE],
   [DefaultEnv EXCEPT !.FREEE_ACCESS_TOKEN = TRUE, !.QB_ACCESS_TOKEN = TRUE,
                      !.development = TRUE],
   [DefaultEnv EXCEPT !.credentials = FALSE]}

\* Offsets from StartTime at which the cached token expires: inside the
\* refresh buffer (4 minutes), one clock step outside it, and 10 minutes.
ExpiryOffsets ==
  {240000, REFRESH_BUFFER_SECONDS * 1000 + ClockStep, 600000}

InitToken ==
  /\ InitTasks
  /\ InitServices
  /\ now = StartTime
  /\ env \in TokenEnvs
  /\ maxTokens = FreeeMaxTokens
  /\ refillRate = FreeeRefillRate
  /\ tokens = FreeeMaxTokens * TokenScale
  /\ lastRefill = StartTime
  /\ \E e \in {0} \cup {StartTime + d : d \in ExpiryOffsets} :
       /\ cachedTokens = [q \in Providers |-> IF e = 0 THEN NoToken ELSE OldToken]
       /\ tokenExpiresAt = [q \in Providers |-> e]
       /\ \E c \in {NoCredential, [StoredCredential EXCEPT !.expires_at = e],
                      [StoredCredential EXCEPT !.expires_at = e,
                                               !.refresh_token = NoToken]} :
            store = [q \in Providers |->
                       IF q = "freee" THEN c
                       ELSE [StoredCredential EXCEPT !.expires_at = e]]
  /\ issued = 0

NextToken ==
  \/ Tick /\ UNCHANGED svcVars
  \/ \E p \in Procs :
       \/ StartGetAccessToken(p) /\ UNCHANGED svcVars
       \/ GetAccessToken(p) /\ UNCHANGED svcVars
       \/ RefreshLoad(p) /\ UNCHANGED svcVars
       \/ RefreshResponse(p) /\ UNCHANGED svcVars
       \/ StoreLoad(p) /\ UNCHANGED svcVars
       \/ StoreSave(p) /\ UNCHANGED svcVars
       \/ RefreshDone(p) /\ UNCHANGED svcVars
       \/ GatAssign(p) /\ UNCHANGED svcVars

SpecToken == InitToken /\ [][NextToken]_vars

\* ------------------------------------------------ one client operation
\* The bucket as earlier calls left it, the token as initializeTokens or an
\* earlier call left it.
InitClient ==
  /\ InitTasks
  /\ InitServices
  /\ now = StartTime
  /\ env = [DefaultEnv EXCEPT !.FREEE_COMPANY_ID = FALSE]
  /\ maxTokens = FreeeMaxTokens
  /\ refillRate = FreeeRefillRate
  /\ lastRefill = StartTime
  /\ \E i \in {<<FreeeMaxTokens * TokenScale, 600000>>,
                 <<TokenScale \div 2, 600000>>,
                 <<FreeeMaxTokens * TokenScale, 240000>>} :
       LET e == StartTime + i[2] IN
       /\ tokens = i[1]
       /\ cachedTokens = [q \in Providers |-> OldToken]
       /\ tokenExpiresAt = [q \in Providers |-> e]
       /\ store = [q \in Providers |-> [StoredCredential EXCEPT !.expires_at = e]]
  /\ issued = 0

NextClient ==
  \/ TimerDue /\ UNCHANGED svcVars
  \/ StartClient(1) /\ UNCHANGED svcVars
  \/ InvokeClient(1) /\ UNCHANGED svcVars
  \/ Acquire(1) /\ UNCHANGED svcVars
  \/ LimiterWake(1) /\ UNCHANGED svcVars
  \/ GetAccessToken(1) /\ UNCHANGED svcVars
  \/ RefreshLoad(1) /\ UNCHANGED svcVars
  \/ RefreshResponse(1) /\ UNCHANGED svcVars
  \/ StoreLoad(1) /\ UNCHANGED svcVars
  \/ StoreSave(1) /\ UNCHANGED svcVars
  \/ RefreshDone(1) /\ UNCHANGED svcVars
  \/ GatAssign(1) /\ UNCHANGED svcVars
  \/ CheckAndFetch(1) /\ UNCHANGED svcVars
  \/ HttpResponse(1) /\ UNCHANGED svcVars
  \/ RateLimitWake(1) /\ UNCHANGED svcVars
  \/ BackoffWake(1) /\ UNCHANGED svcVars

SpecClient == InitClient /\ [][NextClient]_vars

\* ---- The journal job and the report endpoints: one task calls getJournals
\* ---- for a journal the API builds as a job, or a report endpoint
InitJob ==
  /\ InitTasks
  /\ InitServices
  /\ now = StartTime
  /\ env = DefaultEnv
  /\ maxTokens = FreeeMaxTokens
  /\ refillRate = FreeeRefillRate
  /\ lastRefill = StartTime
  /\ tokens = FreeeMaxTokens * TokenScale
  /\ cachedTokens = [q \in Providers |-> OldToken]
  /\ tokenExpiresAt = [q \in Providers |-> StartTime + 3600000]
  /\ store = [q \in Providers |->
                [StoredCredential EXCEPT !.expires_at = StartTime + 3600000]]
  /\ issued = 0

NextJob ==
  \/ TimerDue /\ UNCHANGED svcVars
  \/ StartGetJournals(1) /\ UNCHANGED svcVars
  \/ StartCallFreeeEndpoint(1) /\ UNCHANGED svcVars
  \/ InvokeClient(1) /\ UNCHANGED svcVars
  \/ Acquire(1) /\ UNCHANGED svcVars
  \/ GetAccessToken(1) /\ UNCHANGED svcVars
  \/ CheckAndFetch(1) /\ UNCHANGED svcVars
  \/ JobResponse(1) /\ UNCHANGED svcVars
  \/ PollStatus(1) /\ UNCHANGED svcVars
  \/ PollWake(1) /\ UNCHANGED svcVars
  \/ PollDownload(1) /\ UNCHANGED svcVars
  \/ EndpointFetch(1) /\ UNCHANGED svcVars
  \/ EndpointResponse(1) /\ UNCHANGED svcVars
  \/ BackoffWake(1) /\ UNCHANGED svcVars

SpecJob == InitJob /\ [][NextJob]_vars

\* ---------------------------------------------- the request cache alone
InitCache == InitTasks /\ InitQuiet /\ InitServices

\* Task 1 is the request path (getFromCache, saveToCache); task 2 is
\* housekeeping: the sweep timer, invalidation and the full clear.
NextCache ==
  \/ Tick /\ UNCHANGED svcVars
  \/ StartGetFromCache(1)
  \/ CacheSelect(1)
  \/ CacheTouch(1)
  \/ CacheStat(1)
  \/ StartSaveToCache(1)
  \/ CacheInsert(1)
  \/ CacheSize(1)
  \/ InvalidateCache(2)
  \/ StartCleanExpiredCache(2)
  \/ CacheSweep(2)
  \/ ClearAllCache(2)
  \/ ClearStamp(2)

SpecCache == InitCache /\ [][NextCache]_vars

\* ---- The cache with saves of any ttl: task 1 saves and reads
NextCacheTtl ==
  \/ Tick /\ UNCHANGED svcVars
  \/ StartSaveAnyTtl(1)
  \/ CacheInsert(1)
  \/ CacheSize(1)
  \/ StartGetFromCache(1)
  \/ CacheSelect(1)
  \/ CacheTouch(1)
  \/ CacheStat(1)

SpecCacheTtl == InitCache /\ [][NextCacheTtl]_vars

\* ------------------------------------------------- the audit log alone
\* The row a budget modification of the day before left in audit_log
YesterdayRow ==
  StoredRow(NewEntry(DataModification(
                       [NoEvent EXCEPT !.user_id = Str("system"),
                                       !.resource_type = Str("budget"),
                                       !.action = Str("CREATE")]),
                     StartTime - DayMs), 1)

\* The service starts on an audit_log that is new or kept from the day
\* before (CREATE TABLE IF NOT EXISTS, auditLog.js:30-31)
InitAudit ==
  /\ InitTasks
  /\ InitQuiet
  /\ InitStore
  /\ auditLog \in {<<>>, <<YesterdayRow>>}

\* Task 1 logs, verifies and queries; task 2 summarises, reads the
\* statistics and exports.
NextAudit ==
  \/ Tick /\ UNCHANGED svcVars
  \/ StartLogAuditEvent(1)
  \/ AuditInsert(1)
  \/ VerifyAuditLogIntegrity(1)
  \/ QueryAuditLogs(1)
  \/ StartGenerateDailySummary(2)
  \/ SummaryStats(2)
  \/ SummaryEndpoints(2)
  \/ SummaryResources(2)
  \/ SummarySave(2)
  \/ GetAuditStatistics(2)
  \/ ExportAuditLogs(2)

SpecAudit == InitAudit /\ [][NextAudit]_vars

\* Logging and verifying while the database file is also written from
\* outside the service
NextAuditTamper ==
  \/ Tick /\ UNCHANGED svcVars
  \/ StartLogAuditEvent(1)
  \/ AuditInsert(1)
  \/ VerifyAuditLogIntegrity(1)
  \/ Tamper

SpecAuditTamper == InitAudit /\ [][NextAuditTamper]_vars

\* ------------------------------------------- requests to the router
InitHttp == InitTasks /\ InitQuiet /\ InitServices

\* The clock stands still: every ttl of getCacheConfig is longer than the
\* time the model covers
NextHttp ==
  \/ \E p \in Procs :
       \/ StartRequest(p)
       \/ CacheSelect(p)
       \/ CacheTouch(p)
       \/ CacheStat(p)
       \/ CacheHit(p)
       \/ CacheMiss(p)
       \/ Handler(p)
       \/ ResponseCacheInsert(p)
       \/ ResponseCacheSize(p)
       \/ ResponseAuditInsert(p)
       \/ Finish(p)
       \/ ResponseErrorInsert(p)

SpecHttp == InitHttp /\ [][NextHttp]_vars

\* --------------------------------------------- the credential store alone
BothStored == [q \in Providers |-> StoredCredential]

\* The store when the process starts: a new installation; key and file
\* as an earlier run left them; the file with .key gone; the file cut short
\* by an interrupted write; a .key that is not 32 bytes
VaultStates ==
  {<<[keyFile |-> "none", encryptionKey |-> "none", file |-> "absent",
      sealedWith |-> "none"], EmptyMap>>,
   <<[keyFile |-> "K1", encryptionKey |-> "none", file |-> "sealed",
      sealedWith |-> "K1"], BothStored>>,
   <<[keyFile |-> "none", encryptionKey |-> "none", file |-> "sealed",
      sealedWith |-> "K1"], BothStored>>,
   <<[keyFile |-> "K1", encryptionKey |-> "none", file |-> "garbled",
      sealedWith |-> "none"], EmptyMap>>,
   <<[keyFile |-> "short", encryptionKey |-> "none", file |-> "sealed",
      sealedWith |-> "K1"], BothStored>>}

InitVault ==
  /\ InitTasks
  /\ InitTables
  /\ auditLog = <<>>
  /\ now = StartTime
  /\ env = DefaultEnv
  /\ maxTokens = FreeeMaxTokens
  /\ refillRate = FreeeRefillRate
  /\ tokens = FreeeMaxTokens * TokenScale
  /\ lastRefill = StartTime
  /\ cachedTokens = [q \in Providers |-> NoToken]
  /\ tokenExpiresAt = [q \in Providers |-> 0]
  /\ issued = 0
  /\ \E v \in VaultStates : vault = v[1] /\ store = v[2]

NextVault ==
  \E p \in Procs :
    \/ StartLoadSecureTokens(p)
    \/ StartStoreTokenSecurely(p)
    \/ StartDeleteStoredToken(p)
    \/ LoadKey(p)
    \/ LoadReturns(p)
    \/ StoreAfterLoad(p)
    \/ DeleteAfterLoad(p)
    \/ SaveKey(p)
    \/ FileWrite(p)

SpecVault == InitVault /\ [][NextVault]_vars

\* ------------------------------------------------------------------ claims
Done(p) == pc[p] = "done"

\* C1: with shouldRetry always true and maxRetries = N, a unit of work that
\* fails on every invocation is invoked exactly N + 1 times, and the error
\* raised is the wrapping error with attempts = N whose cause is the error
\* of the last invocation.
C1_ExhaustedRetries ==
  \A p \in Procs :
    (op[p] = "work" /\ arg[p].policy = "default") =>
      /\ hist[p].calls <= arg[p].maxRetries + 1
      /\ (Done(p) /\ result[p].type = "thrown") =>
           /\ hist[p].calls = arg[p].maxRetries + 1
           /\ result[p].error.message = "Failed after retries"
           /\ result[p].attempts = arg[p].maxRetries
           /\ result[p].cause.id = hist[p].calls

C1_Witness ==
  \E p \in Procs :
    /\ op[p] = "work" /\ arg[p].policy = "default" /\ arg[p].maxRetries = 3
    /\ Done(p) /\ result[p].type = "thrown"
    /\ hist[p].calls = 4 /\ result[p].attempts = 3

GrantIdx == 1..Len(grants)

\* Number of grants from the i-th to the j-th, and the time between them
GrantsIn(i, j) == j - i + 1
Span(i, j) == grants[j] - grants[i]

\* C3: in every window shorter than capacity / refillRate seconds at most
\* capacity acquire()/tryAcquire() calls are granted a token.
C3_AtMostCapacityPerWindow ==
  \A i, j \in GrantIdx :
    (i <= j /\ Span(i, j) * refillRate < Capacity) => GrantsIn(i, j) <= maxTokens

\* C3 as amended: the grants inside a window of length W never exceed
\* capacity + refillRate * W, the burst plus what the window refills.
C3_BurstPlusRefill ==
  \A i, j \in GrantIdx :
    i <= j => GrantsIn(i, j) * TokenScale <= Capacity + Span(i, j) * refillRate

C3_Witness ==
  \E i, j \in GrantIdx :
    /\ i < j
    /\ Span(i, j) > 0
    /\ Span(i, j) * refillRate < Capacity
    /\ GrantsIn(i, j) > maxTokens

\* C4: with a non-decreasing clock the token count stays within
\* 0 <= tokens <= maxTokens after any interleaving of refill, acquire and
\* tryAcquire.
C4_TokensInRange == 0 <= tokens /\ tokens <= Capacity

C4_Witness ==
  /\ Len(grants) > 0
  /\ tokens = Capacity
  /\ lastRefill > StartTime
  /\ \E p \in Procs : op[p] = "refill" /\ Done(p)

\* Refresh requests to the token endpoint of provider q that are in flight
InFlight(q) == {p \in Procs : pc[p] = "refreshing" /\ arg[p].provider = q}

\* C2: concurrent getAccessToken(provider) callers that observe the same
\* expired or absent in-memory token have at most one refresh request in
\* flight at any time.
C2_SingleFlight == \A q \in Providers : Cardinality(InFlight(q)) <= 1

\* A direct getAccessToken call that has read the in-memory token
Entered(p) == op[p] = "getAccessToken" /\ pc[p] \notin {"idle", "token"}

\* What the call saw on entry: a cached token with now < expires_at - 5 min,
\* or a cached token with expires_at - 5 min <= now
SawFresh(p) ==
  /\ hist[p].seenCached # NoToken
  /\ hist[p].seenNow < hist[p].seenExpiry - 5 * 60 * 1000
SawStale(p) ==
  /\ hist[p].seenCached # NoToken
  /\ hist[p].seenExpiry - 5 * 60 * 1000 <= hist[p].seenNow

ReturnsCachedUnchanged(p) ==
  /\ Done(p)
  /\ result[p] = Returned(hist[p].seenCached)
  /\ hist[p].refreshes = 0

ReturnsNewlyIssued(p) ==
  /\ hist[p].refreshes = 1
  /\ result[p].value >= FirstIssued
  /\ result[p].value = loc[p].tokenData

\* C10: getAccessToken returns the cached token and sends no request while
\* now < expires_at - 5 min; from expires_at - 5 min on it performs a refresh
\* and returns the newly issued token.
C10_RefreshWheneverStale ==
  \A p \in Procs :
    Entered(p) =>
      /\ SawFresh(p) => ReturnsCachedUnchanged(p)
      /\ (SawStale(p) /\ Done(p) /\ result[p].type = "value") =>
           ReturnsNewlyIssued(p)

\* C10 as amended: from expires_at - 5 min on, a call that returns a token
\* has refreshed once and returns the token of that refresh, unless the
\* static access token of the environment is set: then it returns the
\* static token and sends nothing to the token endpoint.
C10_RefreshUnlessStaticToken ==
  \A p \in Procs :
    Entered(p) =>
      /\ SawFresh(p) => ReturnsCachedUnchanged(p)
      /\ (SawStale(p) /\ Done(p) /\ result[p].type = "value") =>
           IF EnvTokenSet(arg[p].provider)
           THEN result[p].value = EnvToken /\ hist[p].refreshes = 0
           ELSE ReturnsNewlyIssued(p)

C10_Witness ==
  \E p, q \in Procs :
    /\ Entered(p) /\ SawStale(p) /\ Done(p) /\ ReturnsNewlyIssued(p)
    /\ hist[p].seenExpiry - hist[p].seenNow = 240000
    /\ Entered(q) /\ SawFresh(q) /\ ReturnsCachedUnchanged(q)
    /\ result[q].value = result[p].value

IsClient(p) == op[p] \in ClientOps
Got(p) == hist[p].got
LastGot(p) == Got(p)[Len(Got(p))]
IsPrefix(u, v) == Len(u) <= Len(v) /\ \A i \in 1..Len(u) : u[i] = v[i]

\* C5: a client operation whose upstream answers 503, 503 and then 200
\* makes exactly three HTTP attempts and returns the payload of the 200:
\* it never ends while the upstream has only answered 503.
C5_TransientThenSuccess ==
  \A p \in Procs :
    (IsClient(p) /\ Done(p) /\ Got(p) # <<>>
       /\ IsPrefix(Got(p), <<503, 503, 200>>)) =>
      /\ Got(p) = <<503, 503, 200>>
      /\ hist[p].http = 3
      /\ result[p] = Returned(3)

\* 4xx statuses other than 408 and 429
PermanentStatuses == (400..499) \ {408, 429}

\* C6: a 4xx answer other than 408 and 429 ends the call at once with the
\* error carrying that status: no backoff sleep, no further attempt, for
\* every client operation.
C6_PermanentSurfacedAtOnce ==
  \A p \in Procs :
    (IsClient(p) /\ Got(p) # <<>> /\ LastGot(p) \in PermanentStatuses) =>
      /\ Done(p)
      /\ result[p] = Thrown(lastError[p])
      /\ result[p].error.status = LastGot(p)
      /\ hist[p].backoffWait = 0

\* C7: with no company id in params or environment every client operation
\* fails at once with 'company_id is required': one invocation of the unit
\* of work, no backoff sleep, no HTTP request.
C7_ValidationSurfacedAtOnce ==
  \A p \in Procs :
    (IsClient(p) /\ ~arg[p].hasCompany /\ ~env.FREEE_COMPANY_ID
       /\ lastError[p].message = "company_id is required") =>
      /\ Done(p)
      /\ result[p] = Thrown(lastError[p])
      /\ hist[p].calls = 1
      /\ hist[p].http = 0
      /\ hist[p].backoffWait = 0

\* C8: after a 429 the call waits, before its next attempt, the larger of
\* the explicit duration plus the safety buffer and the computed backoff
\* delay, not their sum.
C8_WaitIsLargerOfTheTwo ==
  \A p \in Procs :
    (IsClient(p) /\ hist[p].gap.after = 429) =>
      hist[p].gap.rateLimit + hist[p].gap.backoff
        = Max(hist[p].gap.rateLimit, hist[p].gap.backoff)

\* C9: a 429 received while retries remain is not surfaced to the caller:
\* a call that ends on a 429 has used up maxRetries, and the attempt after
\* a 429 starts no earlier than the explicit wait plus the safety buffer.
C9_RateLimitAbsorbed ==
  \A p \in Procs :
    IsClient(p) =>
      /\ (Done(p) /\ Got(p) # <<>> /\ LastGot(p) = 429) =>
           attempt[p] = arg[p].maxRetries
      /\ hist[p].gap.after = 429 =>
           hist[p].gap.rateLimit >= hist[p].explicit + RateLimitBuffer

C12_RefreshFailureNotRetried ==
  \A p \in Procs :
    (IsClient(p) /\ lastError[p].message = "Failed to refresh freee token") =>
      /\ Done(p)
      /\ result[p] = Thrown(lastError[p])
      /\ hist[p].calls = 1
      /\ hist[p].refreshes = 1
      /\ hist[p].backoffWait = 0

FreeeBucket == maxTokens = FreeeMaxTokens /\ refillRate = FreeeRefillRate

\* One token's refill time of the freee bucket: 1 / (5/60) s = 12 s
FreeeTokenTime == TokenScale \div FreeeRefillRate

\* C13: on a freee bucket (capacity 5, 5/60 token per second) that starts
\* full, calls issued at the starting instant wait only once five tokens
\* have been granted, the call that finds the bucket empty sleeps one
\* token's refill time (12 s), and no sixth token is granted earlier.
C13_SixthWaitsTwelveSeconds ==
  FreeeBucket =>
    /\ now = StartTime =>
         \A p \in Procs :
           (op[p] = "acquire" /\ pc[p] = "limiterSleep") =>
             /\ Len(grants) >= FreeeMaxTokens
             /\ wakeAt[p] = StartTime + FreeeTokenTime
             /\ hist[p].limWait = FreeeTokenTime
    /\ now = StartTime =>
         \A p \in Procs :
           (op[p] = "acquire" /\ Done(p)) => hist[p].limWait = 0
    /\ (Len(grants) > FreeeMaxTokens
          /\ grants[FreeeMaxTokens] = StartTime) =>
         grants[FreeeMaxTokens + 1] >= StartTime + FreeeTokenTime

C13_Witness ==
  /\ FreeeBucket
  /\ Len(grants) = FreeeMaxTokens + 1
  /\ grants[FreeeMaxTokens] = StartTime
  /\ grants[FreeeMaxTokens + 1] = StartTime + FreeeTokenTime
  /\ \E p \in Procs :
       /\ op[p] = "acquire" /\ Done(p)
       /\ hist[p].limWait = FreeeTokenTime

\* A getFromCache call that has returned
GotFromCache(p) == op[p] = "getFromCache" /\ Done(p)

\* C14: a getFromCache that follows a saveToCache(e, p, v, ttl) on the same
\* key, with no invalidate, clear or other save on that key in between,
\* returns v when it reads the store before set time + ttl, and returns
\* null when it is called at set time + ttl or later.
C14_HitBeforeTtlMissAfter ==
  \A p \in Procs :
    (GotFromCache(p) /\ call[p].seen.live) =>
      LET c == call[p] IN
      /\ c.selectedAt < c.seen.at + c.seen.ttl =>
           c.ret.kind = "hit" /\ c.ret.data = c.seen.data
      /\ c.now >= c.seen.at + c.seen.ttl => c.ret.kind = "null"

C14_Witness ==
  \E p \in Procs :
    /\ GotFromCache(p) /\ call[p].seen.live
    /\ call[p].seen.at < call[p].now
    /\ call[p].selectedAt < call[p].seen.at + call[p].seen.ttl
    /\ call[p].ret.kind = "hit" /\ call[p].ret.data = call[p].seen.data

\* The parameter key/value pairs of a params object, whatever their order
PairSet(params) ==
  {params[i] : i \in {j \in DOMAIN params : params[j][2] # Null}}

\* generateCacheKey gives one key to params with the same key/value pairs
SameKeyWhateverOrder ==
  \A e \in Endpoints, q1, q2 \in ParamObjects :
    PairSet(q1) = PairSet(q2) =>
      generateCacheKey(e, q1) = generateCacheKey(e, q2)

\* C15: params that differ only in key order give the same cache key, so
\* the store holds one entry per endpoint and set of key/value pairs, and
\* a get returns the payload of the last save made under any key order.
C15_KeyIgnoresOrder ==
  /\ SameKeyWhateverOrder
  /\ \A e \in Endpoints :
       Cardinality({k \in CacheKeys : cache[k].present /\ cache[k].endpoint = e})
         <= Cardinality({PairSet(q) : q \in ParamObjects})
  /\ \A p \in Procs :
       (GotFromCache(p) /\ call[p].ret.kind = "hit") =>
         /\ call[p].seen.live
         /\ call[p].ret.data = call[p].seen.data

C15_Witness ==
  \E p \in Procs :
    /\ GotFromCache(p) /\ call[p].ret.kind = "hit"
    /\ call[p].seen.params # call[p].params
    /\ PairSet(call[p].seen.params) = PairSet(call[p].params)
    /\ call[p].ret.data = call[p].seen.data
    /\ call[p].seen.id > 1
    /\ Cardinality({k \in CacheKeys : cache[k].present}) = 1

\* C16: getFromCache never returns an entry with expires_at <= now, and
\* what a get called after the sweeps returns depends only on the saves and
\* removals made on the key: the entry last saved if it has not expired,
\* null otherwise, whether or not a sweep has deleted rows.
C16_SweepNeverChangesGets ==
  \A p \in Procs :
    GotFromCache(p) =>
      LET c == call[p] IN
      /\ c.ret.kind = "hit" => c.ret.expires_at > c.now
      /\ c.selectedAt = c.now =>
           IF c.seen.live /\ c.seen.expires_at > c.now
           THEN /\ c.ret.kind = "hit"
                /\ c.ret.data = c.seen.data
                /\ c.ret.cached_at = c.seen.at
                /\ c.ret.expires_at = c.seen.expires_at
           ELSE c.ret.kind = "null"

C16_Witness ==
  \E p, q \in Procs :
    /\ op[p] = "cleanExpiredCache" /\ Done(p) /\ call[p].ret.changes > 0
    /\ GotFromCache(q) /\ call[q].ret.kind = "null"
    /\ call[q].seen.live /\ call[q].seen.expires_at <= call[q].now
    /\ ~cache[call[q].key].present
    /\ call[q].id > call[p].id
    /\ call[q].selectedAt = call[q].now

\* C18: verifyAuditLogIntegrity(id) of an entry that exists returns true as
\* long as none of its stored fields was changed after logAuditEvent
\* inserted it, and false once one of timestamp, event_type, endpoint,
\* user_id, action was changed in storage to a different value.
C18_VerifyTrueUntilTampered ==
  \A p \in Procs :
    (op[p] = "verifyAuditLogIntegrity" /\ Done(p)
       /\ call[p].verified.id # 0)
      => (call[p].ret = TrueValue <=> ~call[p].verified.touched)

\* C19: no step of logAuditEvent, queryAuditLogs, generateDailySummary,
\* getAuditStatistics, verifyAuditLogIntegrity or exportAuditLogs removes or
\* changes an audit_log entry: every entry of a state is, field for field,
\* the entry of the same position in the next state, and the number of
\* entries does not decrease.
C19_AuditLogAppendOnly ==
  [][/\ Len(auditLog') >= Len(auditLog)
     /\ \A i \in DOMAIN auditLog : auditLog'[i] = auditLog[i]]_vars

\* An entry was appended to a log that had entries, after a daily summary
\* over the log was saved
C19_Witness ==
  /\ Len(auditLog) >= 2
  /\ auditSummary # {}
  /\ \E s \in auditSummary : s.stats.total_requests > 0

\* C17: a request whose handler answers with a status of 400 or more, or
\* throws, leaves no entry in the cache: no cache row holds an error
\* document and no request is answered an error document from the cache.
C17_ErrorsNeverCached ==
  /\ \A k \in CacheKeys :
       cache[k].present => Parse(cache[k].data).kind # "error"
  /\ \A p \in Procs :
       (op[p] = "request" /\ pc[p] \in {"responded", "done"}
          /\ call[p].ret.kind = "hit")
         => call[p].body.kind # "error"

\* C20: every request that went through auditMiddleware and is over has an
\* audit entry, and any two such requests, whatever their status, have the
\* same number of entries.
C20_SameEntriesWhateverOutcome ==
  \A p \in Procs, q \in Procs :
    (op[p] = "request" /\ Done(p) /\ op[q] = "request" /\ Done(q))
      => /\ call[p].audited >= 1
         /\ call[p].audited = call[q].audited

\* A request was answered from the cache after an earlier request for the
\* same key was answered by its handler
C17_Witness ==
  \E p \in Procs, q \in Procs :
    /\ op[p] = "request" /\ Done(p) /\ call[p].ret.kind = "hit"
    /\ op[q] = "request" /\ call[q].id < call[p].id
    /\ call[q].key = call[p].key /\ call[q].ret.kind = "null"

\* C21: a completed loadSecureTokens whose read found no credential file
\* returned the empty map, and one whose read found a file that could not
\* be decrypted or parsed (corrupt blob, corrupt or wrong key) failed
\* instead of returning a map.
C21_EmptyMapOnlyWhenAbsent ==
  \A p \in Procs :
    (op[p] = "loadSecureTokens" /\ Done(p))
      => /\ call[p].found = "absent"
              => (call[p].ret.kind = "map" /\ call[p].ret.tokens = EmptyMap)
         /\ (call[p].found # "absent" /\ ~call[p].opened)
              => call[p].ret.kind = "throws"

\* A load found the file absent and returned the empty map
C21_Witness ==
  \E p \in Procs :
    /\ op[p] = "loadSecureTokens" /\ Done(p)
    /\ call[p].found = "absent"
    /\ call[p].ret.kind = "map" /\ call[p].ret.tokens = EmptyMap

\* C22: when the only two operations on the store so far, a store or
\* delete each, run by different tasks for different providers, have both
\* completed, the stored map holds the outcome of both:
\* the credential a store wrote, no credential where a delete ran.
C22_BothUpdatesStored ==
  \A p \in Procs, o \in Procs :
    (/\ served = 2
     /\ p # o /\ Done(p) /\ Done(o)
     /\ op[p] \in {"storeTokenSecurely", "deleteStoredToken"}
     /\ op[o] \in {"storeTokenSecurely", "deleteStoredToken"}
     /\ call[p].ret = TrueValue /\ call[o].ret = TrueValue
     /\ call[p].provider # call[o].provider)
      => store[call[p].provider] = call[p].cred

\* C26: a completed storeTokenSecurely(p, c) or deleteStoredToken(p), the
\* only operation on the store so far, leaves every other provider's
\* credential as the file held it before the call, also when the file
\* could not be decrypted by the process at the time of the call.
C26_OtherProvidersUntouched ==
  \A p \in Procs :
    (/\ served = 1
     /\ Done(p)
     /\ op[p] \in {"storeTokenSecurely", "deleteStoredToken"}
     /\ \A o \in Procs \ {p} : op[o] = "none")
      => \A q \in Providers \ {call[p].provider} :
           Readable(vault, store)[q] = call[p].before[q]

\* C23: every outbound HTTP request of the task (each attempt of a client
\* call, each status check and download of the journal job, each report
\* endpoint request) comes after a grant of the rate limiter of its own:
\* the task has never sent more requests than the limiter has granted.
C23_EveryRequestAcquired == hist[1].http <= Len(grants)

\* a second status check of the journal job has been sent
C23_Witness == op[1] = "getJournals" /\ hist[1].checks >= 2

\* C30: pollJournalJob makes at most 60 status checks; once a status check
\* reports the job's error no further check is made and the call has
\* failed with that error; and a call that failed after polling failed
\* with the job's error or with the timeout error.
C30_PollingEndsOnJobError ==
  /\ hist[1].checks <= PollMaxRetries
  /\ hist[1].errorAt # 0 =>
       /\ hist[1].checks = hist[1].errorAt
       /\ pc[1] = "done"
       /\ result[1].type = "thrown"
       /\ result[1].error.message = "Job failed"
  /\ (op[1] = "getJournals" /\ pc[1] = "done" /\ result[1].type = "thrown") =>
       result[1].error.message
         \in {"Job failed", "Timeout waiting for journal data"}

\* a status check has reported the job's error
C30_Witness == hist[1].errorAt # 0

\* The parameters an object defines: its key/value pairs, whatever their
\* order, without the keys whose value is null or undefined
DefinedParams(params) ==
  {params[i] : i \in {j \in DOMAIN params : params[j][2] # Null}}

\* C24: a call of invalidateCache(endpoint, params) removes the entry saved
\* for that endpoint with those parameters and no other; a call of
\* invalidateCache(endpoint) removes every entry of that endpoint; every
\* other entry is left as it was, and nothing else changes in the table.
C24_InvalidateRemovesExactly ==
  [][\A p \in Procs :
       (served' = served + 1 /\ op'[p] = "invalidateCache"
        /\ call'[p].id = served')
         => \A k \in CacheKeys :
              LET named ==
                    /\ cache[k].present
                    /\ cache[k].endpoint = call'[p].endpoint
                    /\ call'[p].params # <<>> =>
                         DefinedParams(lastSet[k].params)
                           = DefinedParams(call'[p].params)
              IN IF named THEN ~cache'[k].present
                 ELSE cache'[k] = cache[k]]_vars

\* invalidateCache(endpoint, params) has just returned and another entry of
\* the same endpoint is still in the cache
C24_Witness ==
  /\ op[2] = "invalidateCache" /\ pc[2] = "done" /\ call[2].id = served
  /\ call[2].params # <<>>
  /\ ~cache[generateCacheKey(call[2].endpoint, call[2].params)].present
  /\ \E k \in CacheKeys :
       cache[k].present /\ cache[k].endpoint = call[2].endpoint

\* C25: every entry of the cache expires after it was created, whatever
\* ttl it was saved with, zero and negative values included.
C25_ExpiresAfterCreated ==
  \A k \in CacheKeys :
    cache[k].present => cache[k].expires_at > cache[k].created_at

\* an entry saved with a ttl of zero or less is in the cache
C25_Witness ==
  \E k \in CacheKeys :
    cache[k].present /\ lastSet[k].live /\ lastSet[k].ttl <= 0

\* C27: whenever no call of getAccessToken is in progress and a refresh has
\* completed, the token and expiry held in memory for freee are the
\* access_token and expires_at of the credential in the store, which is the
\* one the most recent completed refresh saved.
C27_MemoryMatchesStore ==
  (/\ \A p \in Procs : pc[p] \in {"idle", "done"}
   /\ \E p \in Procs : hist[p].refreshes > 0 /\ result[p].type = "value")
    => /\ cachedTokens["freee"] = store["freee"].access_token
       /\ tokenExpiresAt["freee"] = store["freee"].expires_at

\* a refresh has completed and no call is in progress
C27_Witness ==
  /\ \A p \in Procs : pc[p] \in {"idle", "done"}
  /\ \E p \in Procs : hist[p].refreshes > 0 /\ result[p].type = "value"

\* C28: when retryWithBackoff has failed and shouldRetry(error, attempt)
\* is false for the error and the attempt index of its last invocation, the
\* caller has received that error itself and not the wrapping error, for
\* every attempt index 0..maxRetries and every maxRetries >= 0.
C28_RefusedErrorRethrown ==
  \A p \in Procs :
    (/\ op[p] = "work" /\ pc[p] = "done" /\ result[p].type = "thrown"
     /\ ~ShouldRetry(arg[p], lastError[p], attempt[p]))
      => result[p] = Thrown(lastError[p])

\* a call has failed on an error shouldRetry refuses, at its last allowed
\* attempt
C28_Witness ==
  \E p \in Procs :
    /\ op[p] = "work" /\ pc[p] = "done" /\ result[p].type = "thrown"
    /\ ~ShouldRetry(arg[p], lastError[p], attempt[p])
    /\ attempt[p] = arg[p].maxRetries

\* C29: with a positive refill rate, a clock that advances and finitely
\* many callers of acquire() on one bucket, every call eventually returns,
\* and what it returns is true; and the step that grants a caller its
\* token is the step that refilled and re-checked the bucket: the token it
\* saw is the one it takes, the count never going below zero.
C29_EveryAcquireReturns ==
  /\ \A p \in Procs :
       (op[p] = "acquire" /\ pc[p] # "done")
         ~> (pc[p] = "done" /\ result[p] = Returned(1))
  /\ [](\A p \in Procs :
          (op[p] = "acquire" /\ pc[p] = "done") => result[p] = Returned(1))
  /\ [][\A p \in Procs :
          (pc[p] = "acquire" /\ pc'[p] = "done")
            => /\ Refilled >= TokenScale
               /\ tokens' = Refilled - TokenScale
               /\ tokens' >= 0]_vars

\* every caller has its token, and one of them slept more than the time
\* one token takes to refill: it woke, found the token taken and slept
\* again
C29_Witness ==
  /\ \A p \in Procs : op[p] = "acquire" /\ pc[p] = "done"
  /\ \E p \in Procs : hist[p].limWait > TokenScale \div refillRate
====
